---- MODULE Spec2Model ----
(***************************************************************************)
(* Verification model of the videoverse edit compiler.                     *)
(*                                                                         *)
(* The videoEditor POST handler exists in two revisions in the repository: *)
(*   "route"   src/app/api/videoEditor/route.ts                            *)
(*   "part013" src/unnamed/part_013                                        *)
(* The variable rev says which revision handles the request.               *)
(*                                                                         *)
(* Numbers.  Durations are exact rationals [n |-> Int, d |-> Nat], kept    *)
(* in lowest terms; d = 0 is NaN (the result of 0 / 0).                    *)
(* A filter graph is the sequence of its stages, each                      *)
(* [ins, chain, out]: the labels read, the filters applied, the label      *)
(* emitted; the code writes the same stages as "[in]f1,f2[out];".          *)
(* An optional field x?: T is a sequence of length 0 (undefined) or 1.     *)
(***************************************************************************)
EXTENDS Integers, Sequences, FiniteSets, TLC

VARIABLES
    rev,                 \* revision of the videoEditor handler
    body,                \* the parsed EditRequest (req.json())
    files,               \* per clip: the file under public/videos
    audioFile,           \* public/generated_speech.mp3
    pc,                  \* position of the handler
    probed,              \* clips whose ffprobe call has completed
    totalVideoDuration,
    clipInfos,
    audioDuration,
    targetDuration,
    durationScale,
    adjustedClips,
    clipFilters,         \* the handler's local list of per-clip trim filters
    command,             \* the FFmpegCommandBuilder's fields
    ffmpegCommand,       \* builder.build(): the token sequence
    executed,            \* whether execAsync(ffmpegCommand) was called
    response

editorVars ==
    << rev, body, files, audioFile, pc, probed, totalVideoDuration,
       clipInfos, audioDuration, targetDuration, durationScale,
       adjustedClips, clipFilters, command, ffmpegCommand, executed, response >>

(* The analyzeEdit POST handler, in two revisions as well:                 *)
(*   "route"   src/app/api/analyzeEdit/route.ts                            *)
(*   "part014" src/unnamed/part_014                                        *)
VARIABLES
    aRev,                \* revision of the analyzeEdit handler
    aBody,               \* its request body: prompt and clips
    aiContent,           \* completion.choices[0].message.content
    aPc,                 \* position of the handler
    editRequest,         \* the edit request sent on to the video editor
    aResponse

analyzeVars == << aRev, aBody, aiContent, aPc, editRequest, aResponse >>

(* Repeated application of clamp to one value *)
VARIABLES
    clampArgs,           \* [value, min, max]
    clampResults         \* clamp(value), clamp(clamp(value)), ...

clampVars == << clampArgs, clampResults >>

(* The same request handled again: what the handlers produced for it so far *)
VARIABLES
    runs,                \* number of times the request has been posted
    commandsSeen,        \* the commands the video editor built for it
    requestsSeen         \* the edit requests analyzeEdit derived for it

runVars == << runs, commandsSeen, requestsSeen >>

(* Requests in flight in the server process *)
VARIABLES
    inFlight             \* per request: handler, phase and output path

writerVars == << inFlight >>

(* The handlers that poll for a result *)
VARIABLES
    pHandler,            \* createMusicVideo (two revisions), shotstack,
                         \* checkKlingVideo
    pPc,                 \* position of the handler
    attempts,            \* its attempts counter
    videoReady,          \* its videoReady local
    checks,              \* calls of checkVideoReady made so far
    fileSize,            \* size of the output file; -1 when there is none
    initialSize,         \* checkVideoReady's initialSize local
    elapsed,             \* Date.now() - startTime, in seconds
    failure,             \* the site of the failure: timeout, execution, ...
    thrown,              \* message of the Error thrown, "" when none
    pResponse            \* the handler's response

pollVars ==
    << pHandler, pPc, attempts, videoReady, checks, fileSize, initialSize,
       elapsed, failure, thrown, pResponse >>

(* generateKlingVideo: the task created at the Kling API and pollForCompletion *)
VARIABLES
    tRev,                \* which copy of the handler in route.ts runs
    tPc,                 \* position of the handler
    tAttempts,           \* pollForCompletion's attempts counter
    polls,               \* GET requests for the task issued so far
    lastStatus,          \* what the last of them reported, "" when none
    videoUrl,            \* the value pollForCompletion returned, "" when none
    tThrown,             \* message of the Error thrown, "" when none
    tResponse            \* the handler's response

taskVars ==
    << tRev, tPc, tAttempts, polls, lastStatus, videoUrl, tThrown, tResponse >>

(* analyzeKlingPrompt: the keywords of the analysis and fetchMusicWithRetry *)
VARIABLES
    mPc,                 \* position of the handler
    analysis,            \* what analyzePromptWithGPT4 returned
    searchKeywords,      \* the keywords of the next music request
    attempt,             \* the attempt parameter of the running call
    sent,                \* the keywords of every request issued so far
    outcomes,            \* what each of these requests came to
    musicData,           \* the sound fetchMusicWithRetry returned, if any
    mResponse            \* the handler's response

musicVars ==
    << mPc, analysis, searchKeywords, attempt, sent, outcomes, musicData,
       mResponse >>

(* generateSRT and formatTime *)
VARIABLES
    srtText,             \* the text argument, none when it is undefined
    srtDuration,         \* the duration argument, in minutes, if any
    srtFile,             \* the captions written to outputPath, if any
    formatted            \* the calls of formatTime made apart from these

srtVars == << srtText, srtDuration, srtFile, formatted >>

serviceVars == << taskVars, musicVars, srtVars >>

vars ==
    << editorVars, analyzeVars, clampVars, runVars, writerVars, pollVars,
       serviceVars >>

----------------------------------------------------------------------------
(* Bounds *)

MaxClips == 3
MaxTextLen == 2

----------------------------------------------------------------------------
(* Arithmetic *)

Abs(x) == IF x < 0 THEN -x ELSE x

RECURSIVE GCD(_, _)
GCD(a, b) == IF b = 0 THEN a ELSE GCD(b, a % b)

NaN == [n |-> 0, d |-> 0]

IsNaN(r) == r.d = 0

\* the rational n/d in lowest terms, d > 0; 0/0 is NaN
Rat(n, d) ==
    IF d = 0 THEN NaN
    ELSE LET g == GCD(Abs(n), Abs(d))
             s == IF d < 0 THEN -1 ELSE 1
         IN  [n |-> s * (n \div g), d |-> s * (d \div g)]

RInt(k) == [n |-> k, d |-> 1]

RAdd(a, b) == IF IsNaN(a) \/ IsNaN(b) THEN NaN
              ELSE Rat(a.n * b.d + b.n * a.d, a.d * b.d)

RSub(a, b) == IF IsNaN(a) \/ IsNaN(b) THEN NaN
              ELSE Rat(a.n * b.d - b.n * a.d, a.d * b.d)

RMul(a, b) == IF IsNaN(a) \/ IsNaN(b) THEN NaN
              ELSE Rat(a.n * b.n, a.d * b.d)

\* a / b for a >= 0; the handler only divides non-negative numbers, and
\* x / 0 with x > 0 does not occur (targetDuration <= totalVideoDuration)
RDiv(a, b) == IF IsNaN(a) \/ IsNaN(b) \/ b.n = 0 THEN NaN
              ELSE Rat(a.n * b.d, a.d * b.n)

RLeq(a, b) == a.n * b.d <= b.n * a.d

\* Math.min(a, b)
RMin(a, b) == IF IsNaN(a) \/ IsNaN(b) THEN NaN
              ELSE IF RLeq(a, b) THEN a ELSE b

RECURSIVE RSum(_)
RSum(s) == IF s = << >> THEN RInt(0) ELSE RAdd(Head(s), RSum(Tail(s)))

\* x || dflt for an optional number: undefined and 0 are falsy
OrNum(x, dflt) == IF x = << >> THEN dflt
                  ELSE IF x[1] = 0 THEN dflt ELSE x[1]

\* a destructuring default  { x = dflt } = obj : only undefined is replaced
DefNum(x, dflt) == IF x = << >> THEN dflt ELSE x[1]

----------------------------------------------------------------------------
(* Sequences *)

RECURSIVE Flatten(_)
Flatten(ss) == IF ss = << >> THEN << >> ELSE Head(ss) \o Flatten(Tail(ss))

\* String.prototype.replace(/c/g, r) on a sequence of characters
RECURSIVE ReplaceAll(_, _, _)
ReplaceAll(s, c, r) ==
    IF s = << >> THEN << >>
    ELSE (IF Head(s) = c THEN r ELSE << Head(s) >>) \o ReplaceAll(Tail(s), c, r)

----------------------------------------------------------------------------
(* Labels, filters and stages of a filter graph *)

Label(name, idx) == [name |-> name, idx |-> idx]

\* "[N:v]": the video stream of input N
InputRef(streamIndex) == Label("in:v", streamIndex)

IsInputRef(l) == l.name = "in:v"

Fixed(name) == Label(name, -1)

Filter(name, nums, text, expr) ==
    [name |-> name, nums |-> nums, text |-> text, expr |-> expr]

Stage(ins, chain, out) == [ins |-> ins, chain |-> chain, out |-> out]

----------------------------------------------------------------------------
(* FFmpegCommandBuilder *)

EmptyBuilder ==
    [inputFiles |-> << >>, filterComplex |-> << >>, outputOptions |-> << >>,
     currentStreamIndex |-> 0]

\* addInput: pushes the -i flag; the value returned is the index before the
\* increment, AddInputIndex(b)
AddInputIndex(b) == b.currentStreamIndex

AddInput(b, filePath) ==
    [b EXCEPT !.inputFiles = Append(@, filePath),
              !.currentStreamIndex = @ + 1]

AddFilter(b, filter) == [b EXCEPT !.filterComplex = Append(@, filter)]

Option(opt, val) == [opt |-> opt, val |-> val]

AddOutputOption(b, option) == [b EXCEPT !.outputOptions = Append(@, option)]

\* buildFilterComplex: the -filter_complex flag, or nothing when no filter
\* was added.  The graphs pushed by addFilter are joined with ";".
BuildFilterComplex(b) ==
    IF Len(b.filterComplex) > 0
    THEN << [flag |-> "-filter_complex", val |-> Flatten(b.filterComplex)] >>
    ELSE << >>

\* the output options placed before the filter graph
BuildOptionsFirst(b, outputPath) ==
    [i \in 1..Len(b.inputFiles) |-> [flag |-> "-i", val |-> b.inputFiles[i]]]
    \o [i \in 1..Len(b.outputOptions) |->
           [flag |-> b.outputOptions[i].opt, val |-> b.outputOptions[i].val]]
    \o BuildFilterComplex(b)
    \o << [flag |-> "output", val |-> outputPath] >>

\* build: "ffmpeg -y <inputs> <filter_complex> <output options> <outputPath>"
Build(b, outputPath) ==
    [i \in 1..Len(b.inputFiles) |-> [flag |-> "-i", val |-> b.inputFiles[i]]]
    \o BuildFilterComplex(b)
    \o [i \in 1..Len(b.outputOptions) |->
           [flag |-> b.outputOptions[i].opt, val |-> b.outputOptions[i].val]]
    \o << [flag |-> "output", val |-> outputPath] >>

Quote == "'"
Colon == ":"
LBracket == "["
RBracket == "]"
Backslash == "\\"
Slash == "/"

\* escapeText (part_013): five replacements, applied in this order
EscapeText(text) ==
    LET s1 == ReplaceAll(text, Quote, << Quote, Backslash, Quote, Quote >>)
        s2 == ReplaceAll(s1, Colon, << Backslash, Colon >>)
        s3 == ReplaceAll(s2, LBracket, << Backslash, LBracket >>)
        s4 == ReplaceAll(s3, RBracket, << Backslash, RBracket >>)
    IN  ReplaceAll(s4, Backslash, << Slash >>)

\* the positions table of getTextPosition
Positions ==
    [p \in {"center,center", "center,top", "center,bottom", "left,center",
            "right,center", "center,top+150", "center,bottom-100"} |->
       CASE p = "center,center"     -> "x=(w-text_w)/2:y=(h-text_h)/2"
         [] p = "center,top"        -> "x=(w-text_w)/2:y=10"
         [] p = "center,bottom"     -> "x=(w-text_w)/2:y=h-text_h-10"
         [] p = "left,center"       -> "x=10:y=(h-text_h)/2"
         [] p = "right,center"      -> "x=w-text_w-10:y=(h-text_h)/2"
         [] p = "center,top+150"    -> "x=(w-text_w)/2:y=150"
         [] p = "center,bottom-100" -> "x=(w-text_w)/2:y=h-text_h-100"]

\* the position strings of the model that /^\d+,\d+$/ matches, with the
\* expression `x=${x}:y=${y}` built from their two halves
Coordinates ==
    [p \in {"10,10", "300,40"} |->
       IF p = "10,10" THEN "x=10:y=10" ELSE "x=300:y=40"]

\* keys every object literal inherits from Object.prototype: positions[key]
\* is a function, which is truthy, and is interpolated as its source text
PrototypeKeys ==
    [p \in {"toString", "constructor"} |->
       IF p = "toString" THEN "function toString() { [native code] }"
       ELSE "function Object() { [native code] }"]

\* getTextPosition
GetTextPosition(position) ==
    IF position \in DOMAIN Coordinates THEN Coordinates[position]
    ELSE IF position \in DOMAIN Positions THEN Positions[position]
    ELSE IF position \in DOMAIN PrototypeKeys THEN PrototypeKeys[position]
    ELSE Positions["center,center"]

\* the switch on text.position in the POST handler of route.ts
SwitchTextPosition(position) ==
    CASE position = "center,center-100" -> "x=(w-text_w)/2:y=(h-text_h)/2-100"
      [] position = "center,center+100" -> "x=(w-text_w)/2:y=(h-text_h)/2+100"
      [] OTHER -> "x=(w-text_w)/2:y=(h-text_h)/2"

\* the drawtext stage: buildTextFilter in part_013, the inline template in
\* route.ts.  nums = << startTime, startTime + duration >>.
DrawText(text, position, startTime, duration) ==
    Filter("drawtext", << RInt(startTime), RInt(startTime + duration) >>,
           text, position)

BuildTextFilter(text, lastLabel, nextLabel) ==
    LET startTime == OrNum(text.startTime, 0)
        duration == OrNum(text.duration, 0)
        position == GetTextPosition(text.position)
        escapedText == EscapeText(text.content)
    IN  Stage(<< lastLabel >>,
              << DrawText(escapedText, position, startTime, duration) >>,
              nextLabel)

InlineTextFilter(text, lastLabel, nextLabel) ==
    LET startTime == OrNum(text.startTime, 0)
        duration == OrNum(text.duration, 0)
        position == SwitchTextPosition(text.position)
    IN  Stage(<< lastLabel >>,
              << DrawText(text.content, position, startTime, duration) >>,
              nextLabel)

----------------------------------------------------------------------------
(* The filter graph of the POST handler *)

NoNums == << >>
NoText == << >>

\* step 1 of route.ts: one normalization chain per clip, read from [index:v]
NormalizeClipRoute(index, clip) ==
    << Stage(<< InputRef(index) >>,
             << Filter("fps", << RInt(24) >>, NoText, ""),
                Filter("scale", NoNums, NoText,
                       "1080:1920:force_original_aspect_ratio=decrease"),
                Filter("pad", NoNums, NoText, "1080:1920:(ow-iw)/2:(oh-ih)/2"),
                Filter("setsar", << RInt(1) >>, NoText, ""),
                Filter("trim", << clip.actualDuration >>, NoText, "duration"),
                Filter("setpts", NoNums, NoText, "PTS-STARTPTS") >>,
             Label("normclip", index)) >>

\* the zoompan stage of part_013; zoomSpeed is
\* ((zoomEnd - zoomStart) / (duration * 24)).toFixed(4), kept in 1/10000
ZoomSpeed(zoomStart, zoomEnd, duration) ==
    IF duration = 0 THEN NaN
    ELSE LET num == (zoomEnd - zoomStart) * 10000
             den == duration * 24 * 100
         IN  Rat((2 * num + den) \div (2 * den), 10000)

ZoomPanFilter(zoomPan) ==
    LET zoomStart == DefNum(zoomPan.zoomStart, 100)
        zoomEnd == DefNum(zoomPan.zoomEnd, 200)
        duration == DefNum(zoomPan.duration, 5)
    IN  Filter("zoompan",
               << Rat(zoomStart, 100), Rat(zoomEnd, 100),
                  ZoomSpeed(zoomStart, zoomEnd, duration) >>,
               NoText, "d=1:s=1080x1920:fps=24")

\* step 1 of part_013: scale, speed and zoom stages per clip, read from
\* the label [clip{index}]
NormalizeClipPart013(index, clip, effects) ==
    << Stage(<< Label("clip", index) >>,
             << Filter("fps", << RInt(24) >>, NoText, ""),
                Filter("scale", NoNums, NoText, "4000:-1"),
                Filter("setsar", << RInt(1) >>, NoText, "") >>,
             Label("scaledclip", index)),
       Stage(<< Label("scaledclip", index) >>,
             << Filter("setpts", << Rat(1, OrNum(clip.speed, 1)) >>, NoText,
                       "*PTS") >>,
             Label("speedclip", index)),
       IF effects # << >> /\ effects[1].zoomPan # << >>
       THEN Stage(<< Label("speedclip", index) >>,
                  << ZoomPanFilter(effects[1].zoomPan[1]) >>,
                  Label("zoomedclip", index))
       ELSE Stage(<< Label("speedclip", index) >>,
                  << Filter("scale", NoNums, NoText,
                            "1080:1920:force_original_aspect_ratio=decrease"),
                     Filter("pad", NoNums, NoText,
                            "1080:1920:(ow-iw)/2:(oh-ih)/2") >>,
                  Label("zoomedclip", index)) >>

\* the label the transition and concat steps read for clip index
ClipLabel(r, index) ==
    IF r = "route" THEN Label("normclip", index) ELSE Label("zoomedclip", index)

\* the clip length the fade-out is placed against
FadeClipDuration(r, clip) ==
    IF r = "route" THEN clip.actualDuration
    ELSE RDiv(clip.actualDuration, RInt(OrNum(clip.speed, 1)))

FadeIn(transitionDuration) ==
    Filter("fade", << RInt(0), RInt(transitionDuration) >>, NoText, "in")

FadeOut(duration, transitionDuration) ==
    Filter("fade", << RSub(duration, RInt(transitionDuration)),
                      RInt(transitionDuration) >>, NoText, "out")

\* every clip faded on both sides, whatever its position
FadeStageBothSides(r, i, n, clip, transitionDuration) ==
    LET duration == FadeClipDuration(r, clip)
    IN  Stage(<< ClipLabel(r, i) >>,
              << FadeIn(transitionDuration),
                 FadeOut(duration, transitionDuration) >>,
              Label("fadedclip", i))

\* the fade stage of clip i (0-based) out of n
FadeStage(r, i, n, clip, transitionDuration) ==
    LET duration == FadeClipDuration(r, clip)
        chain == IF i = 0
                 THEN << FadeOut(duration, transitionDuration) >>
                 ELSE IF i = n - 1
                 THEN << FadeIn(transitionDuration) >>
                 ELSE << FadeIn(transitionDuration),
                         FadeOut(duration, transitionDuration) >>
    IN  Stage(<< ClipLabel(r, i) >>, chain, Label("fadedclip", i))

ConcatFilter(n) == Filter("concat", << RInt(n), RInt(1), RInt(0) >>, NoText, "")

\* step 2: the transition stages and the concatenation into mainv
TransitionAndConcat(r, clips, effects) ==
    LET n == Len(clips)
    IN  IF effects # << >> /\ effects[1].transition # << >>
        THEN LET transitionDuration ==
                     OrNum(effects[1].transition[1].duration, 1)
             IN  [k \in 1..n |->
                     FadeStage(r, k - 1, n, clips[k], transitionDuration)]
                 \o << Stage([k \in 1..n |-> Label("fadedclip", k - 1)],
                             << ConcatFilter(n) >>, Fixed("mainv")) >>
        ELSE << Stage([k \in 1..n |-> ClipLabel(r, k - 1)],
                      << ConcatFilter(n) >>, Fixed("mainv")) >>

Copy == Filter("copy", NoNums, NoText, "")

Format == Filter("format", NoNums, NoText, "yuv420p")

ColorStage(effects) ==
    IF effects.colorAdjustment # << >>
    THEN LET c == effects.colorAdjustment[1]
         IN  Stage(<< Fixed("mainv") >>,
                   << Filter("eq", << Rat(DefNum(c.brightness, 0), 100),
                                      Rat(DefNum(c.contrast, 100), 100),
                                      Rat(DefNum(c.saturation, 100), 100) >>,
                             NoText, "") >>,
                   Fixed("colorv"))
    ELSE Stage(<< Fixed("mainv") >>, << Copy >>, Fixed("colorv"))

\* the forEach over body.effects.text, from entry index (0-based) on
RECURSIVE TextStagesFrom(_, _, _, _)
TextStagesFrom(r, texts, index, lastLabel) ==
    IF index >= Len(texts) THEN << >>
    ELSE LET text == texts[index + 1]
             nextLabel == IF index = Len(texts) - 1 THEN Fixed("textv")
                          ELSE Label("text", index)
         IN  IF r = "route"
             THEN << InlineTextFilter(text, lastLabel, nextLabel) >>
                  \o TextStagesFrom(r, texts, index + 1, nextLabel)
             ELSE IF text.isNull
             THEN TextStagesFrom(r, texts, index + 1, lastLabel)
             ELSE << BuildTextFilter(text, lastLabel, nextLabel) >>
                  \o TextStagesFrom(r, texts, index + 1, nextLabel)

TextStages(r, effects) ==
    IF Len(effects.text) > 0
    THEN TextStagesFrom(r, effects.text, 0, Fixed("colorv"))
    ELSE << Stage(<< Fixed("colorv") >>, << Copy >>, Fixed("textv")) >>

SpeedStage(effects) ==
    IF OrNum(effects.speed, 0) # 0
    THEN Stage(<< Fixed("textv") >>,
               << Filter("setpts", << Rat(1, effects.speed[1]) >>, NoText,
                         "*PTS") >>,
               Fixed("speedv"))
    ELSE Stage(<< Fixed("textv") >>, << Copy >>, Fixed("speedv"))

\* the last stages: route.ts ignores body.finalFilter
FinalStages(r, finalFilter) ==
    IF r = "part013" /\ finalFilter # << >>
    THEN << Stage(<< Fixed("speedv") >>,
                  << Filter("finalFilter", NoNums, NoText, finalFilter[1]) >>,
                  Fixed("filteredv")),
            Stage(<< Fixed("filteredv") >>, << Format >>, Fixed("finalv")) >>
    ELSE << Stage(<< Fixed("speedv") >>, << Format >>, Fixed("finalv")) >>

\* the effects chain applied even when the request has no effects object
PostConcatAlways(r, effects, finalFilter) ==
    LET e == IF effects # << >> THEN effects[1]
             ELSE [transition |-> << >>, zoomPan |-> << >>,
                   colorAdjustment |-> << >>, text |-> << >>, speed |-> << >>]
    IN  << ColorStage(e) >> \o TextStages(r, e)
        \o << SpeedStage(e) >> \o FinalStages(r, finalFilter)

\* step 3: the chain after mainv
PostConcat(r, effects, finalFilter) ==
    IF effects # << >>
    THEN << ColorStage(effects[1]) >> \o TextStages(r, effects[1])
         \o << SpeedStage(effects[1]) >> \o FinalStages(r, finalFilter)
    ELSE << Stage(<< Fixed("mainv") >>, << Format >>, Fixed("finalv")) >>

\* the whole filterGraph string of the handler
FilterGraph(r, clips, effects, finalFilter) ==
    Flatten([k \in 1..Len(clips) |->
               IF r = "route" THEN NormalizeClipRoute(k - 1, clips[k])
               ELSE NormalizeClipPart013(k - 1, clips[k], effects)])
    \o TransitionAndConcat(r, clips, effects)
    \o PostConcat(r, effects, finalFilter)

----------------------------------------------------------------------------
(* The POST handler of the video editor *)

Revisions == {"route", "part013"}

OutputPath == "public/output/edited_video.mp4"

None == << >>

NoResponse == [status |-> 0, error |-> "", url |-> ""]

\* lines "Validate input files exist": the first missing clip file ends the
\* request with a 400
ValidateInputs ==
    /\ pc = "validate"
    /\ IF \E k \in DOMAIN body.clips : ~files[k].exists
       THEN /\ response' = [status |-> 400, error |-> "Video file not found",
                            url |-> ""]
            /\ pc' = "done"
       ELSE /\ pc' = "probe"
            /\ UNCHANGED response
    /\ UNCHANGED << analyzeVars, clampVars, runVars, writerVars, pollVars, serviceVars >>
    /\ UNCHANGED << rev, body, files, audioFile, probed, totalVideoDuration,
                    clipInfos, audioDuration, targetDuration, durationScale,
                    adjustedClips, clipFilters, command, ffmpegCommand,
                    executed >>

\* the clip infos collected in the order the probes complete
ProbeClipInCompletionOrder(k) ==
    /\ pc = "probe"
    /\ k \in DOMAIN body.clips
    /\ k \notin probed
    /\ LET clip == body.clips[k]
           sourceDuration == files[k].sourceDuration
           clipDuration == OrNum(clip.duration, sourceDuration)
       IN  /\ totalVideoDuration' = RAdd(totalVideoDuration, RInt(clipDuration))
           /\ clipInfos' = [clipInfos EXCEPT ![Cardinality(probed) + 1] =
                  [fileName |-> clip.fileName, duration |-> clip.duration,
                   speed |-> clip.speed, sourceDuration |-> sourceDuration,
                   actualDuration |-> RInt(clipDuration)]]
    /\ probed' = probed \cup {k}
    /\ UNCHANGED << analyzeVars, clampVars, runVars, writerVars, pollVars, serviceVars >>
    /\ UNCHANGED << rev, body, files, audioFile, pc, audioDuration,
                    targetDuration, durationScale, adjustedClips, clipFilters,
                    command, ffmpegCommand, executed, response >>

\* the callback of body.clips.map resumes after the ffprobe call of clip k;
\* the calls of Promise.all complete in any order
ProbeClip(k) ==
    /\ pc = "probe"
    /\ k \in DOMAIN body.clips
    /\ k \notin probed
    /\ LET clip == body.clips[k]
           sourceDuration == files[k].sourceDuration
           clipDuration == OrNum(clip.duration, sourceDuration)
       IN  /\ totalVideoDuration' = RAdd(totalVideoDuration, RInt(clipDuration))
           /\ clipInfos' = [clipInfos EXCEPT ![k] =
                  [fileName |-> clip.fileName, duration |-> clip.duration,
                   speed |-> clip.speed, sourceDuration |-> sourceDuration,
                   actualDuration |-> RInt(clipDuration)]]
    /\ probed' = probed \cup {k}
    /\ UNCHANGED << analyzeVars, clampVars, runVars, writerVars, pollVars, serviceVars >>
    /\ UNCHANGED << rev, body, files, audioFile, pc, audioDuration,
                    targetDuration, durationScale, adjustedClips, clipFilters,
                    command, ffmpegCommand, executed, response >>

\* "Get audio duration": 0 unless the narration file exists
GetAudioDuration ==
    /\ pc = "probe"
    /\ probed = DOMAIN body.clips
    /\ audioDuration' = IF audioFile.exists THEN RInt(audioFile.duration)
                        ELSE RInt(0)
    /\ pc' = "build"
    /\ UNCHANGED << analyzeVars, clampVars, runVars, writerVars, pollVars, serviceVars >>
    /\ UNCHANGED << rev, body, files, audioFile, probed, totalVideoDuration,
                    clipInfos, targetDuration, durationScale, adjustedClips,
                    clipFilters, command, ffmpegCommand, executed, response >>

\* the longer of the two instead of the shorter
TargetDurationLonger(total, audio) == IF RLeq(total, audio) THEN audio ELSE total

\* Math.min(totalVideoDuration, audioDuration)
TargetDuration(total, audio) == RMin(total, audio)

\* targetDuration / totalVideoDuration
DurationScale(target, total) == RDiv(target, total)

\* clipInfos.map(clip => ({...clip, actualDuration: clip.actualDuration * durationScale}))
AdjustClips(infos, scale) ==
    [k \in DOMAIN infos |->
        [infos[k] EXCEPT !.actualDuration = RMul(@, scale)]]

\* the first loop over adjustedClips: builder.addInput per clip
RECURSIVE AddClipInputs(_, _, _)
AddClipInputs(b, clips, k) ==
    IF k > Len(clips) THEN b
    ELSE AddClipInputs(AddInput(b, clips[k].fileName), clips, k + 1)

\* the trimFilter strings pushed to clipFilters in that loop; streamIndex is
\* the value addInput returned for the clip
ClipFilters(r, clips) ==
    [k \in DOMAIN clips |->
        Stage(<< InputRef(k - 1) >>,
              << Filter("trim", << clips[k].actualDuration >>, NoText,
                        "duration"),
                 IF r = "route"
                 THEN Filter("setpts", NoNums, NoText, "PTS-STARTPTS")
                 ELSE Filter("setpts", << RInt(OrNum(clips[k].speed, 1)) >>,
                             NoText, "PTS/") >>,
              Label("clip", k - 1))]

\* the fade-out placed at the very end of the output
AudioOptionsFadeOutAtEnd(b, hasAudio, audio, audioStreamIndex, target) ==
    IF ~hasAudio THEN b
    ELSE LET b1 == IF audio # << >>
                   THEN LET volume == DefNum(audio[1].volume, 100)
                            fadeIn == DefNum(audio[1].fadeIn, 0)
                            fadeOut == DefNum(audio[1].fadeOut, 0)
                        IN  AddOutputOption(b, Option("-af",
                              << [f |-> "afade=t=in", st |-> RInt(0),
                                  d |-> Rat(fadeIn, 100)],
                                 [f |-> "afade=t=out", st |-> target,
                                  d |-> Rat(fadeOut, 100)],
                                 [f |-> "volume", st |-> RInt(0),
                                  d |-> Rat(volume, 100)] >>))
                   ELSE b
         IN  AddOutputOption(b1, Option("-map:a", audioStreamIndex))

\* "Handle audio": the -af chain (when body.audio is given) and the audio map
AudioOptions(b, hasAudio, audio, audioStreamIndex, target) ==
    IF ~hasAudio THEN b
    ELSE LET b1 == IF audio # << >>
                   THEN LET volume == DefNum(audio[1].volume, 100)
                            fadeIn == DefNum(audio[1].fadeIn, 0)
                            fadeOut == DefNum(audio[1].fadeOut, 0)
                        IN  AddOutputOption(b, Option("-af",
                              << [f |-> "afade=t=in", st |-> RInt(0),
                                  d |-> Rat(fadeIn, 100)],
                                 [f |-> "afade=t=out",
                                  st |-> RSub(target, Rat(fadeOut, 100)),
                                  d |-> Rat(fadeOut, 100)],
                                 [f |-> "volume", st |-> RInt(0),
                                  d |-> Rat(volume, 100)] >>))
                   ELSE b
         IN  AddOutputOption(b1, Option("-map:a", audioStreamIndex))

\* "Quality and format settings"
QualityOptions(b, target) ==
    LET o1 == AddOutputOption(b, Option("-c:v", "libx264"))
        o2 == AddOutputOption(o1, Option("-preset", "medium"))
        o3 == AddOutputOption(o2, Option("-crf", "23"))
        o4 == AddOutputOption(o3, Option("-c:a", "aac"))
        o5 == AddOutputOption(o4, Option("-s", "1080x1920"))
        o6 == AddOutputOption(o5, Option("-r", "24"))
    IN  AddOutputOption(o6, Option("-t", target))

\* a null entry of body.effects.text: route.ts reads text.startTime of it
ThrowsOnText(r, b) ==
    /\ r = "route"
    /\ b.effects # << >>
    /\ \E j \in DOMAIN b.effects[1].text : b.effects[1].text[j].isNull

\* from "Determine final video duration" to execAsync(ffmpegCommand): one
\* synchronous run of the handler
BuildCommand ==
    /\ pc = "build"
    /\ LET target == TargetDuration(totalVideoDuration, audioDuration)
           scale == DurationScale(target, totalVideoDuration)
           adjusted == AdjustClips(clipInfos, scale)
           b1 == AddClipInputs(EmptyBuilder, adjusted, 1)
           hasAudio == audioFile.exists
           audioStreamIndex == IF hasAudio THEN AddInputIndex(b1) ELSE -1
           b2 == IF hasAudio THEN AddInput(b1, "generated_speech.mp3") ELSE b1
           graph == FilterGraph(rev, adjusted, body.effects, body.finalFilter)
           b3 == AddFilter(b2, graph)
           b4 == AddOutputOption(b3, Option("-map", Fixed("finalv")))
           b5 == AudioOptions(b4, hasAudio, body.audio, audioStreamIndex, target)
           b6 == QualityOptions(b5, target)
       IN  /\ targetDuration' = target
           /\ durationScale' = scale
           /\ adjustedClips' = adjusted
           /\ clipFilters' = ClipFilters(rev, adjusted)
           /\ IF ThrowsOnText(rev, body)
              THEN /\ command' = b2
                   /\ response' = [status |-> 500,
                                   error |-> "Failed to process video edit",
                                   url |-> ""]
                   /\ pc' = "done"
                   /\ UNCHANGED << ffmpegCommand, executed, commandsSeen >>
              ELSE /\ command' = b6
                   /\ ffmpegCommand' = Build(b6, OutputPath)
                   /\ commandsSeen' = commandsSeen \cup { Build(b6, OutputPath) }
                   /\ executed' = TRUE
                   /\ pc' = "exec"
                   /\ UNCHANGED response
    /\ UNCHANGED << analyzeVars, clampVars, writerVars, pollVars, serviceVars, runs,
                    requestsSeen >>
    /\ UNCHANGED << rev, body, files, audioFile, probed, totalVideoDuration,
                    clipInfos, audioDuration >>

\* execAsync(ffmpegCommand) returns: the output file is there and not empty,
\* or the call or the check throws
FFmpegExit(ok) ==
    /\ pc = "exec"
    /\ response' = IF ok
                   THEN [status |-> 200, error |-> "",
                         url |-> "/output/edited_video.mp4"]
                   ELSE [status |-> 500,
                         error |-> "Failed to process video edit", url |-> ""]
    /\ pc' = "done"
    /\ UNCHANGED << analyzeVars, clampVars, runVars, writerVars, pollVars, serviceVars >>
    /\ UNCHANGED << rev, body, files, audioFile, probed, totalVideoDuration,
                    clipInfos, audioDuration, targetDuration, durationScale,
                    adjustedClips, clipFilters, command, ffmpegCommand,
                    executed >>

Next ==
    \/ ValidateInputs
    \/ \E k \in DOMAIN body.clips : ProbeClip(k)
    \/ GetAudioDuration
    \/ BuildCommand
    \/ \E ok \in BOOLEAN : FFmpegExit(ok)

----------------------------------------------------------------------------
(* Requests and files *)

\* (clip.duration, clip.speed, probed source duration) of the clips drawn
ClipKinds ==
    { [duration |-> None, speed |-> None, sourceDuration |-> 6],
      [duration |-> << 4 >>, speed |-> None, sourceDuration |-> 6],
      [duration |-> << 2 >>, speed |-> << 2 >>, sourceDuration |-> 3] }

ClipOf(kind, k) ==
    [fileName |-> k, duration |-> kind.duration, speed |-> kind.speed]

NoAudioFile == [exists |-> FALSE, duration |-> 0]

AudioFiles ==
    { NoAudioFile, [exists |-> TRUE, duration |-> 5],
      [exists |-> TRUE, duration |-> 15] }

AudioSettings ==
    { None, << [volume |-> << 80 >>, fadeIn |-> << 100 >>, fadeOut |-> None] >>,
      << [volume |-> None, fadeIn |-> << 50 >>, fadeOut |-> << 200 >>] >> }

TextEntry(content, position) ==
    [content |-> content, position |-> position, fontSize |-> 48,
     color |-> "white", startTime |-> << 1 >>, duration |-> << 3 >>,
     isNull |-> FALSE]

NullText ==
    [content |-> << >>, position |-> "", fontSize |-> 0, color |-> "",
     startTime |-> None, duration |-> None, isNull |-> TRUE]

NoEffects ==
    [transition |-> None, zoomPan |-> None, colorAdjustment |-> None,
     text |-> << >>, speed |-> None]

FadeTransition(d) == << [type |-> "fade", duration |-> d] >>

\* the other handlers take no part in a run of the video editor
AnalyzeIdle ==
    /\ aRev = "route"
    /\ aBody = [prompt |-> FALSE, clips |-> << >>]
    /\ aiContent = [ok |-> FALSE, json |-> << >>]
    /\ aPc = "idle"
    /\ editRequest = << >>
    /\ aResponse = NoResponse

ClampIdle ==
    /\ clampArgs = [value |-> 0, min |-> 0, max |-> 0]
    /\ clampResults = << >>

\* the request is posted for the first time
FirstRun ==
    /\ runs = 1
    /\ commandsSeen = {}
    /\ requestsSeen = {}

WritersIdle == inFlight = << >>

NoPollResponse == [status |-> 0, error |-> "", details |-> ""]

PollIdle ==
    /\ pHandler = "createMusicVideo"
    /\ pPc = "idle"
    /\ attempts = 0
    /\ videoReady = FALSE
    /\ checks = 0
    /\ fileSize = -1
    /\ initialSize = 0
    /\ elapsed = 0
    /\ failure = "none"
    /\ thrown = ""
    /\ pResponse = NoPollResponse

TaskIdle ==
    /\ tRev = "first"
    /\ tPc = "idle"
    /\ tAttempts = 0
    /\ polls = 0
    /\ lastStatus = ""
    /\ videoUrl = ""
    /\ tThrown = ""
    /\ tResponse = NoPollResponse

NoAnalysis == [mainMood |-> "", musicStyle |-> "", keywords |-> << >>]

MusicIdle ==
    /\ mPc = "idle"
    /\ analysis = NoAnalysis
    /\ searchKeywords = << >>
    /\ attempt = 1
    /\ sent = << >>
    /\ outcomes = << >>
    /\ musicData = << >>
    /\ mResponse = NoPollResponse

SrtIdle ==
    /\ srtText = << >>
    /\ srtDuration = << >>
    /\ srtFile = << >>
    /\ formatted = << >>

ServicesIdle == TaskIdle /\ MusicIdle /\ SrtIdle

OthersIdle == FirstRun /\ WritersIdle /\ PollIdle /\ ServicesIdle

\* output of the requests analyzeEdit forwards when the response names none
DefaultOutput == [resolution |-> << "1080x1920" >>, fps |-> << 24 >>]

\* the state of the handler when the request body has been parsed
EditorRequestWith(r, kinds, missing, audio, settings, effects, finalFilter, output) ==
    /\ rev = r
    /\ body = [clips |-> [k \in DOMAIN kinds |-> ClipOf(kinds[k], k)],
               audio |-> settings, output |-> output, effects |-> effects,
               finalFilter |-> finalFilter]
    /\ files = [k \in DOMAIN kinds |->
                  [exists |-> k # missing,
                   sourceDuration |-> kinds[k].sourceDuration]]
    /\ audioFile = audio
    /\ pc = "validate"
    /\ probed = {}
    /\ totalVideoDuration = RInt(0)
    /\ clipInfos = [k \in DOMAIN kinds |->
                      [fileName |-> k, duration |-> None, speed |-> None,
                       sourceDuration |-> 0, actualDuration |-> RInt(0)]]
    /\ audioDuration = RInt(0)
    /\ targetDuration = RInt(0)
    /\ durationScale = RInt(0)
    /\ adjustedClips = << >>
    /\ clipFilters = << >>
    /\ command = EmptyBuilder
    /\ ffmpegCommand = << >>
    /\ executed = FALSE
    /\ response = NoResponse

EditorRequest(r, kinds, missing, audio, settings, effects, finalFilter) ==
    EditorRequestWith(r, kinds, missing, audio, settings, effects, finalFilter,
                      DefaultOutput)

InitRequest(r, kinds, missing, audio, settings, effects, finalFilter) ==
    /\ EditorRequest(r, kinds, missing, audio, settings, effects, finalFilter)
    /\ AnalyzeIdle
    /\ ClampIdle
    /\ OthersIdle

ClipLists == UNION { [1..n -> ClipKinds] : n \in 0..MaxClips }

\* requests that vary the clips, their durations and the narration file
Init ==
    \E r \in Revisions, kinds \in ClipLists, audio \in AudioFiles,
       settings \in AudioSettings,
       effects \in { None, << [NoEffects EXCEPT !.transition =
                                   FadeTransition(<< 1 >>)] >> } :
       \E missing \in 0..Len(kinds) :
          InitRequest(r, kinds, missing, audio, settings, effects, None)

Spec == Init /\ [][Next]_vars

----------------------------------------------------------------------------
(* Duration reconciliation *)

\* the handler has run the reconciliation step for this request
Reconciled == pc \in {"exec", "done"} /\ response.status # 400

\* d_k: clip.duration, or the probed source duration when unset
RequestedDuration(k) ==
    RInt(OrNum(body.clips[k].duration, files[k].sourceDuration))

ActualDurations == [k \in DOMAIN adjustedClips |-> adjustedClips[k].actualDuration]

\* the value of an option of the built command
OptionValue(opt) ==
    LET k == CHOOSE k \in DOMAIN command.outputOptions :
                 command.outputOptions[k].opt = opt
    IN  command.outputOptions[k].val

HasFlag(flag) == \E k \in DOMAIN ffmpegCommand : ffmpegCommand[k].flag = flag

\* the graph handed to -filter_complex
Graph ==
    LET k == CHOOSE k \in DOMAIN ffmpegCommand :
                 ffmpegCommand[k].flag = "-filter_complex"
    IN  ffmpegCommand[k].val

\* C1: with a non-empty clip list and an audio track shorter than the clips'
\* total duration, the reconciled durations sum to the audio duration and
\* every clip is scaled by the same factor, audio / total.
C1_Proportional ==
    ( /\ Reconciled
      /\ Len(body.clips) > 0
      /\ audioFile.exists
      /\ RLeq(audioDuration, totalVideoDuration)
      /\ audioDuration # totalVideoDuration )
    => /\ RSum(ActualDurations) = audioDuration
       /\ \A k \in DOMAIN adjustedClips :
             RDiv(adjustedClips[k].actualDuration, RequestedDuration(k))
                = RDiv(audioDuration, totalVideoDuration)

\* a request of three clips of different lengths cut down to a 5 s narration
C1_Witness ==
    /\ pc = "exec"
    /\ Len(body.clips) = 3
    /\ audioFile.exists
    /\ audioDuration = RInt(5)
    /\ totalVideoDuration = RInt(12)
    /\ \E j, k \in DOMAIN adjustedClips :
          adjustedClips[j].actualDuration # adjustedClips[k].actualDuration

\* C2: without a narration file the target duration is the clips' total
\* duration and the scale is 1: every clip keeps its requested duration and
\* -t is the total duration.
C2_NoAudioKeepsDurations ==
    ( /\ pc = "exec"
      /\ Len(body.clips) > 0
      /\ ~audioFile.exists )
    => /\ targetDuration = totalVideoDuration
       /\ durationScale = RInt(1)
       /\ \A k \in DOMAIN adjustedClips :
             adjustedClips[k].actualDuration = RequestedDuration(k)
       /\ OptionValue("-t") = totalVideoDuration

\* C3: an empty clip list (a total duration of zero) is rejected: no filter
\* graph is constructed, no command is built or executed, and the response
\* is an error.
C3_EmptyClipListRejected ==
    ( /\ pc \in {"build", "exec", "done"}
      /\ (Len(body.clips) = 0 \/ totalVideoDuration = RInt(0)) )
    => /\ command.filterComplex = << >>
       /\ ffmpegCommand = << >>
       /\ ~executed
       /\ (pc = "done" => response.status \in {400, 500})

----------------------------------------------------------------------------
(* The graph of a single clip without effects *)

SingleClipNoEffects ==
    /\ pc = "exec"
    /\ Len(body.clips) = 1
    /\ body.effects = None
    /\ body.finalFilter = None

IsPassthrough(stage) ==
    /\ Len(stage.chain) = 1
    /\ stage.chain[1].name \in {"copy", "format"}

\* C10 as stated: one clip and no effects give a command without
\* -filter_complex, or a graph of exactly one copy/passthrough stage.
C10_TrivialGraph ==
    SingleClipNoEffects
    => \/ ~HasFlag("-filter_complex")
       \/ (Len(Graph) = 1 /\ IsPassthrough(Graph[1]))

StageFilters(stage) == { stage.chain[i].name : i \in DOMAIN stage.chain }

\* C10 as amended: one clip and no effects always give a -filter_complex
\* graph made of the clip's normalization stages (one in route.ts, three in
\* part_013), one concat of n = 1 emitting mainv and one format stage
\* reading mainv and emitting finalv; it has no copy, color, text, speed or
\* fade stage.
C10_SingleClipGraph ==
    SingleClipNoEffects
    => /\ HasFlag("-filter_complex")
       /\ LET g == Graph
              m == Len(g)
          IN  /\ m = (IF rev = "route" THEN 3 ELSE 5)
              /\ g[m].ins = << Fixed("mainv") >>
              /\ StageFilters(g[m]) = {"format"}
              /\ g[m].out = Fixed("finalv")
              /\ StageFilters(g[m - 1]) = {"concat"}
              /\ g[m - 1].chain[1].nums[1] = RInt(1)
              /\ g[m - 1].out = Fixed("mainv")
              /\ \A j \in 1..m :
                    StageFilters(g[j]) \cap {"copy", "eq", "drawtext", "fade"} = {}

C10_Witness ==
    /\ SingleClipNoEffects
    /\ rev = "part013"
    /\ audioFile.exists
    /\ Len(Graph) = 5

----------------------------------------------------------------------------
(* Label structure of the filter graph *)

SampleText == TextEntry(<< "h", "i" >>, "center,center")

TextLists ==
    { << >>, << SampleText >>, << SampleText, SampleText >>,
      << SampleText, NullText >>, << NullText, SampleText >> }

EffectSets ==
    { [transition |-> t, zoomPan |-> z, colorAdjustment |-> c, text |-> x,
       speed |-> s] :
         t \in { None, FadeTransition(None), FadeTransition(<< 2 >>) },
         z \in { None, << [zoomStart |-> None, zoomEnd |-> << 150 >>,
                           duration |-> None] >> },
         c \in { None, << [brightness |-> None, contrast |-> << 110 >>,
                           saturation |-> None] >> },
         x \in TextLists,
         s \in { None, << 2 >> } }

FinalFilters == { None, << "eq=contrast=1.5:brightness=0.1:saturation=1.2" >> }

\* requests that vary the combination of effects over 1..MaxClips clips
InitGraph ==
    \E r \in Revisions, n \in 1..MaxClips, kind \in ClipKinds,
       audio \in { NoAudioFile, [exists |-> TRUE, duration |-> 5] },
       effects \in { None } \cup { << e >> : e \in EffectSets },
       finalFilter \in FinalFilters, missing \in 0..1 :
          InitRequest(r, [k \in 1..n |-> kind], missing, audio, None, effects,
                      finalFilter)

SpecGraph == InitGraph /\ [][Next]_vars

Produced(g, l) == Cardinality({ j \in DOMAIN g : g[j].out = l })

Reads(g, l) ==
    Cardinality({ ji \in (DOMAIN g) \X (1..(MaxClips + 1)) :
                    /\ ji[2] \in DOMAIN g[ji[1]].ins
                    /\ g[ji[1]].ins[ji[2]] = l })

\* every label is produced once and read once; only input streams are read
\* without being produced, only finalv is produced without being read
LabelsUnique(g) ==
    /\ \A j \in DOMAIN g :
          /\ ~IsInputRef(g[j].out)
          /\ Produced(g, g[j].out) = 1
          /\ Reads(g, g[j].out) = (IF g[j].out = Fixed("finalv") THEN 0 ELSE 1)
          /\ \A i \in DOMAIN g[j].ins :
                \/ IsInputRef(g[j].ins[i])
                \/ Produced(g, g[j].ins[i]) = 1
    /\ Produced(g, Fixed("finalv")) = 1

\* C4: for n >= 1 clips and any combination of effects, every intermediate
\* label of the graph is produced exactly once and read exactly once; only
\* [N:v] is read without being produced, only finalv is never read.
C4_LabelUniqueness ==
    (pc = "exec" /\ Len(body.clips) >= 1) => LabelsUnique(Graph)

----------------------------------------------------------------------------
(* Text overlays *)

TextChars == { "a", Quote, Colon, LBracket, RBracket, Backslash }

Texts == UNION { [1..n -> TextChars] : n \in 0..MaxTextLen }

TextPositions ==
    DOMAIN Positions \cup DOMAIN Coordinates \cup DOMAIN PrototypeKeys
    \cup { "center,center-100", "top,left", "" }

\* requests with one text overlay, of any content and position
InitText ==
    \E r \in Revisions, content \in Texts, position \in TextPositions,
       missing \in 0..1 :
          InitRequest(r, << CHOOSE kind \in ClipKinds : kind.duration = None >>,
                      missing, [exists |-> TRUE, duration |-> 5], None,
                      << [NoEffects EXCEPT
                            !.text = << TextEntry(content, position) >>] >>,
                      None)

SpecText == InitText /\ [][Next]_vars

\* the drawtext filter of the one overlay of the request
TheDrawText ==
    LET j == CHOOSE j \in DOMAIN Graph : Graph[j].chain[1].name = "drawtext"
    IN  Graph[j].chain[1]

TheOverlay == body.effects[1].text[1]

OneOverlayCompiled ==
    /\ pc = "exec"
    /\ body.effects # None
    /\ Len(body.effects[1].text) = 1
    /\ ~body.effects[1].text[1].isNull

\* each character of the input replaced by its own escape, once
EscapedChar(c) ==
    CASE c = Quote     -> << Quote, Backslash, Quote, Quote >>
      [] c = Colon     -> << Backslash, Colon >>
      [] c = LBracket  -> << Backslash, LBracket >>
      [] c = RBracket  -> << Backslash, RBracket >>
      [] c = Backslash -> << Slash >>
      [] OTHER         -> << c >>

EscapedOnce(text) == Flatten([i \in DOMAIN text |-> EscapedChar(text[i])])

\* C5: the text embedded in the drawtext stage carries every quote, colon,
\* bracket and backslash of the content in escaped form, and no escape
\* inserted by one replacement step is altered by a later one.
C5_TextEscaped ==
    OneOverlayCompiled => TheDrawText.text = EscapedOnce(TheOverlay.content)

\* C9: every named anchor used as an overlay's position resolves to its own
\* expression in the drawtext stage, and every unrecognized position string
\* resolves to the center,center expression.
C9_PositionResolved ==
    OneOverlayCompiled =>
       LET position == TheOverlay.position
       IN  /\ position \in DOMAIN Positions
                => TheDrawText.expr = Positions[position]
           /\ position \notin (DOMAIN Positions \cup DOMAIN Coordinates)
                => TheDrawText.expr = Positions["center,center"]

----------------------------------------------------------------------------
(* analyzeEdit: parameter normalization.  Numeric effect parameters are in  *)
(* hundredths (volume 0.8 is 80); clip durations and fps are whole numbers. *)

MaxResolutionLen == 3

Chars(str) ==
    CASE str = "1080x1920" -> << "1", "0", "8", "0", "x", "1", "9", "2", "0" >>
      [] str = "720x1280"  -> << "7", "2", "0", "x", "1", "2", "8", "0" >>
      [] str = "1080"      -> << "1", "0", "8", "0" >>
      [] str = "abc"       -> << "a", "b", "c" >>

\* DEFAULT_VALUES
DEFAULT_VALUES ==
    [duration |-> 5,
     resolution |-> Chars("1080x1920"),
     fps |-> 24,
     transitionDuration |-> 100,
     audio |-> [volume |-> 80, fadeIn |-> 200, fadeOut |-> 200, bass |-> 200,
                treble |-> 100, normalize |-> TRUE],
     colorAdjustment |-> [brightness |-> 5, contrast |-> 110,
                          saturation |-> 105, gamma |-> 100, vibrance |-> 110]]

\* the keys of DEFAULT_VALUES.videoFilters
FilterKeys ==
    { "enhance", "dramatic", "warm", "cool", "dreamy", "sharp", "sketch",
      "vignette" }

\* DEFAULT_VALUES.videoFilters
VideoFilters ==
    [key \in FilterKeys |->
       CASE key = "enhance"  -> "eq=contrast=1.5:brightness=0.1:saturation=1.2"
         [] key = "dramatic" -> "curves=preset=strong_contrast"
         [] key = "warm"     -> "colorbalance=rs=.3:gs=-.3:bs=-.3"
         [] key = "cool"     -> "hue=h=90:s=1"
         [] key = "dreamy"   -> "gblur=sigma=10"
         [] key = "sharp"    -> "unsharp=luma_msize_x=5:luma_msize_y=5:luma_amount=2"
         [] key = "sketch"   -> "edgedetect=low=0.1:high=0.3"
         [] key = "vignette" -> "vignette,eq=gamma=1.5"]

Max(a, b) == IF a >= b THEN a ELSE b
Min(a, b) == IF a <= b THEN a ELSE b

\* the two calls in the other order
ClampMinFirst(value, min, max) == Max(Min(value, min), max)

\* clamp: Math.min(Math.max(value, min), max)
Clamp(value, min, max) == Min(Max(value, min), max)

Digits == { "0", "1", "2", "3", "4", "5", "6", "7", "8", "9" }

\* /^\d+x\d+$/.test(s), read from the left: st is "start" before the first
\* digit, "width" in the first number, "x" after the x, "height" in the
\* second number
RECURSIVE RegexScan(_, _)
RegexScan(s, st) ==
    IF s = << >> THEN st = "height"
    ELSE LET c == Head(s)
         IN  CASE st = "start"  -> c \in Digits /\ RegexScan(Tail(s), "width")
               [] st = "width"  -> \/ c \in Digits /\ RegexScan(Tail(s), "width")
                                   \/ c = "x" /\ RegexScan(Tail(s), "x")
               [] st = "x"      -> c \in Digits /\ RegexScan(Tail(s), "height")
               [] st = "height" -> c \in Digits /\ RegexScan(Tail(s), "height")

ResolutionRegexTest(s) == RegexScan(s, "start")

\* x?.field of an optional record
Field(opt, name) == IF opt = << >> THEN << >> ELSE opt[1][name]

\* the resolution taken from the response without the pattern test
UncheckedResolution(ai) ==
    LET r == Field(ai.output, "resolution")
    IN  IF r = << >> \/ r[1] = << >> THEN DEFAULT_VALUES.resolution ELSE r[1]

\* aiResponse.output?.resolution || DEFAULT_VALUES.resolution, then the test
ValidResolution(ai) ==
    LET r == Field(ai.output, "resolution")
        resolution == IF r = << >> \/ r[1] = << >>
                      THEN DEFAULT_VALUES.resolution ELSE r[1]
    IN  IF ResolutionRegexTest(resolution) THEN resolution
        ELSE DEFAULT_VALUES.resolution

\* the audio settings with the volume only bounded from below
AudioSettingsVolumeUnbounded(ai) ==
    [volume |-> Max(OrNum(Field(ai.audio, "volume"),
                          DEFAULT_VALUES.audio.volume), 50),
     fadeIn |-> Clamp(OrNum(Field(ai.audio, "fadeIn"),
                            DEFAULT_VALUES.audio.fadeIn), 50, 200),
     fadeOut |-> Clamp(OrNum(Field(ai.audio, "fadeOut"),
                             DEFAULT_VALUES.audio.fadeOut), 50, 200),
     bass |-> Clamp(OrNum(Field(ai.audio, "bass"),
                          DEFAULT_VALUES.audio.bass), 100, 300),
     treble |-> Clamp(OrNum(Field(ai.audio, "treble"),
                            DEFAULT_VALUES.audio.treble), 100, 200),
     normalize |-> TRUE]

\* audioSettings of mergeWithDefaults
AudioSettingsOf(ai) ==
    [volume |-> Clamp(OrNum(Field(ai.audio, "volume"),
                            DEFAULT_VALUES.audio.volume), 50, 100),
     fadeIn |-> Clamp(OrNum(Field(ai.audio, "fadeIn"),
                            DEFAULT_VALUES.audio.fadeIn), 50, 200),
     fadeOut |-> Clamp(OrNum(Field(ai.audio, "fadeOut"),
                             DEFAULT_VALUES.audio.fadeOut), 50, 200),
     bass |-> Clamp(OrNum(Field(ai.audio, "bass"),
                          DEFAULT_VALUES.audio.bass), 100, 300),
     treble |-> Clamp(OrNum(Field(ai.audio, "treble"),
                            DEFAULT_VALUES.audio.treble), 100, 200),
     normalize |-> TRUE]

\* colorAdjustment of mergeWithDefaults
ColorAdjustmentOf(ai) ==
    LET c == Field(ai.effects, "colorAdjustment")
        d == DEFAULT_VALUES.colorAdjustment
    IN  [brightness |-> Clamp(OrNum(Field(c, "brightness"), d.brightness), -20, 20),
         contrast |-> Clamp(OrNum(Field(c, "contrast"), d.contrast), 90, 120),
         saturation |-> Clamp(OrNum(Field(c, "saturation"), d.saturation), 90, 120),
         gamma |-> Clamp(OrNum(Field(c, "gamma"), d.gamma), 90, 110),
         vibrance |-> Clamp(OrNum(Field(c, "vibrance"), d.vibrance), 100, 120)]

\* getFilterValue: the set of values it can return; a missing (or empty)
\* name gives the filter of a key drawn with Math.random()
FilterValues(filterName) ==
    IF filterName = << >> \/ filterName[1] = ""
    THEN { VideoFilters[key] : key \in FilterKeys }
    ELSE IF filterName[1] \in FilterKeys THEN { VideoFilters[filterName[1]] }
    ELSE { VideoFilters["enhance"] }

\* defaultClips of route.ts
DefaultClips == [k \in 1..5 |-> [fileName |-> k, duration |-> 5, startTime |-> << >>]]

\* route.ts reads defaultClips[index].duration for a clip without a duration:
\* a TypeError from the sixth clip on
MergeThrows(r, ai) ==
    /\ r = "route"
    /\ ai.clips # << >>
    /\ \E k \in DOMAIN ai.clips[1] :
          k > 5 /\ OrNum(ai.clips[1][k].duration, 0) = 0

\* clips of mergeWithDefaults
MergedClips(r, ai) ==
    IF r = "route"
    THEN IF ai.clips # << >> /\ Len(ai.clips[1]) > 0
         THEN [k \in DOMAIN ai.clips[1] |->
                 [fileName |-> k,
                  duration |-> OrNum(ai.clips[1][k].duration,
                                     IF k <= 5 THEN DefaultClips[k].duration ELSE 0),
                  startTime |-> ai.clips[1][k].startTime]]
         ELSE DefaultClips
    ELSE IF ai.clips # << >>
         THEN [k \in DOMAIN ai.clips[1] |->
                 [fileName |-> ai.clips[1][k].fileName,
                  duration |-> OrNum(ai.clips[1][k].duration, 5),
                  startTime |-> << OrNum(ai.clips[1][k].startTime, 0) >>]]
         ELSE << >>

\* mergeWithDefaults, for the filter value drawn
MergeWithDefaults(r, ai, finalFilter) ==
    [clips |-> MergedClips(r, ai),
     audio |-> AudioSettingsOf(ai),
     output |-> [format |-> "mp4",
                 resolution |-> ValidResolution(ai),
                 fps |-> OrNum(Field(ai.output, "fps"), DEFAULT_VALUES.fps),
                 quality |-> LET q == Field(ai.output, "quality")
                             IN  IF q = << >> \/ q[1] = "" THEN "high" ELSE q[1]],
     effects |->
        [transition |->
            [type |-> LET t == Field(Field(ai.effects, "transition"), "type")
                      IN  IF t = << >> \/ t[1] = "" THEN "fade" ELSE t[1],
             duration |-> Clamp(OrNum(Field(Field(ai.effects, "transition"),
                                            "duration"),
                                      DEFAULT_VALUES.transitionDuration),
                                50, 200)],
         colorAdjustment |-> ColorAdjustmentOf(ai),
         speed |-> Clamp(OrNum(Field(ai.effects, "speed"), 100), 50, 200)],
     finalFilter |-> finalFilter]

\* generateDefaultRequest: route.ts takes the five default clips and a
\* random filter, part_014 the request's clips and the enhance filter
GenerateDefaultRequest(r, clips, finalFilter) ==
    [clips |-> IF r = "route" THEN DefaultClips
               ELSE [k \in DOMAIN clips |->
                       [clips[k] EXCEPT !.duration = OrNum(clips[k].duration, 5)]],
     audio |-> DEFAULT_VALUES.audio,
     output |-> [format |-> "mp4", resolution |-> DEFAULT_VALUES.resolution,
                 fps |-> DEFAULT_VALUES.fps, quality |-> "high"],
     effects |-> [transition |-> [type |-> "fade",
                                  duration |-> DEFAULT_VALUES.transitionDuration],
                  colorAdjustment |-> DEFAULT_VALUES.colorAdjustment,
                  speed |-> 100],
     finalFilter |-> finalFilter]

DefaultFilterValues(r) ==
    IF r = "route" THEN { VideoFilters[key] : key \in FilterKeys }
    ELSE { VideoFilters["enhance"] }

----------------------------------------------------------------------------
(* The POST handler of analyzeEdit *)

EditorIdle ==
    EditorRequest("route", << >>, 0, NoAudioFile, None, None, None)

\* the checks on the request body
AnalyzeValidate ==
    /\ aPc = "validate"
    /\ IF ~aBody.prompt
       THEN /\ aResponse' = [status |-> 400, error |-> "Prompt is required",
                             url |-> ""]
            /\ aPc' = "done"
       ELSE IF aRev = "part014" /\ Len(aBody.clips) = 0
       THEN /\ aResponse' = [status |-> 400,
                             error |-> "At least one video clip is required",
                             url |-> ""]
            /\ aPc' = "done"
       ELSE /\ aPc' = "openai"
            /\ UNCHANGED aResponse
    /\ UNCHANGED << aRev, aBody, aiContent, editRequest >>
    /\ UNCHANGED << editorVars, clampVars, runVars, writerVars, pollVars, serviceVars >>

\* openai.chat.completions.create rejects: the handler's outer catch
CompletionFails ==
    /\ aPc = "openai"
    /\ aResponse' = [status |-> 500,
                     error |-> "Failed to analyze and process edit request",
                     url |-> ""]
    /\ aPc' = "done"
    /\ UNCHANGED << aRev, aBody, aiContent, editRequest >>
    /\ UNCHANGED << editorVars, clampVars, runVars, writerVars, pollVars, serviceVars >>

\* the parsed response as mergeWithDefaults receives it: part_014 first puts
\* the request's clips in place of a missing clips array
ParsedResponse(r, json, clips) ==
    IF r = "part014" /\ json.clips = << >>
    THEN [json EXCEPT !.clips = << clips >>]
    ELSE json

\* the completion returns; the inner try block parses the content and
\* merges it, its catch block builds the default request
ParseResponse ==
    /\ aPc = "openai"
    /\ IF aiContent.ok /\ ~MergeThrows(aRev, aiContent.json[1])
       THEN LET ai == ParsedResponse(aRev, aiContent.json[1], aBody.clips)
            IN  \E finalFilter \in FilterValues(ai.finalFilter) :
                   editRequest' = << MergeWithDefaults(aRev, ai, finalFilter) >>
       ELSE \E finalFilter \in DefaultFilterValues(aRev) :
               editRequest' =
                  << GenerateDefaultRequest(aRev, aBody.clips, finalFilter) >>
    /\ requestsSeen' = requestsSeen \cup { editRequest'[1] }
    /\ aPc' = "forward"
    /\ UNCHANGED << aRev, aBody, aiContent, aResponse >>
    /\ UNCHANGED << editorVars, clampVars, writerVars, pollVars, serviceVars, runs,
                    commandsSeen >>

\* the video editor answers the forwarded request
EditorResponds(ok) ==
    /\ aPc = "forward"
    /\ aResponse' = IF ok THEN [status |-> 200, error |-> "", url |-> ""]
                    ELSE [status |-> 500,
                          error |-> "Failed to analyze and process edit request",
                          url |-> ""]
    /\ aPc' = "done"
    /\ UNCHANGED << aRev, aBody, aiContent, editRequest >>
    /\ UNCHANGED << editorVars, clampVars, runVars, writerVars, pollVars, serviceVars >>

NextAnalyze ==
    \/ AnalyzeValidate
    \/ CompletionFails
    \/ ParseResponse
    \/ \E ok \in BOOLEAN : EditorResponds(ok)

ARevisions == {"route", "part014"}

\* numbers an AI response may carry for a parameter: none, zero, negative,
\* small, in the middle of most ranges, large
NumVals == { None, << 0 >>, << -100 >>, << 10 >>, << 100 >>, << 500 >> }

EmptyResponse ==
    [clips |-> None, audio |-> None, output |-> None, effects |-> None,
     finalFilter |-> << "warm" >>]

NoAIEffects == [transition |-> None, colorAdjustment |-> None, speed |-> None]

AudioResponses ==
    { [EmptyResponse EXCEPT !.audio =
          << [volume |-> v, fadeIn |-> i, fadeOut |-> o, bass |-> b,
              treble |-> b] >>] :
        v \in NumVals, i \in NumVals, o \in NumVals, b \in { None, << 500 >> } }

ColorResponses ==
    { [EmptyResponse EXCEPT !.effects =
          << [NoAIEffects EXCEPT !.colorAdjustment =
                 << [brightness |-> b, contrast |-> c, saturation |-> c,
                     gamma |-> g, vibrance |-> v] >>] >>] :
        b \in NumVals, c \in NumVals, g \in NumVals, v \in NumVals }

EffectResponses ==
    { [EmptyResponse EXCEPT !.effects =
          << [NoAIEffects EXCEPT !.transition = t, !.speed = s] >>] :
        t \in { None } \cup { << [type |-> None, duration |-> d] >> : d \in NumVals },
        s \in NumVals }

ResolutionChars == { "1", "0", "x", "a" }

Resolutions ==
    UNION { [1..n -> ResolutionChars] : n \in 0..MaxResolutionLen }
    \cup { Chars("abc"), Chars("1080"), Chars("720x1280"), Chars("1080x1920") }

OutputResponses ==
    { [EmptyResponse EXCEPT !.output =
          << [resolution |-> r, fps |-> f, quality |-> None] >>] :
        r \in { None } \cup { << x >> : x \in Resolutions },
        f \in { None, << 30 >> } }

AIClip(duration) == [fileName |-> << "a.mp4" >>, duration |-> duration,
                     startTime |-> None]

AIClipLists ==
    { None, << << >> >>, << << AIClip(<< 3 >>) >> >>,
      << << AIClip(None), AIClip(<< 7 >>) >> >>,
      << [k \in 1..6 |-> AIClip(None)] >> }

ClipFilterResponses ==
    { [EmptyResponse EXCEPT !.clips = c, !.finalFilter = f] :
        c \in AIClipLists, f \in { None, << "cool" >>, << "bogus" >> } }

AIResponses ==
    AudioResponses \cup ColorResponses \cup EffectResponses
    \cup OutputResponses \cup ClipFilterResponses

RequestClips ==
    { << >>, << [fileName |-> << "video_1.mp4" >>, duration |-> None,
                startTime |-> None] >> }

\* the state of the handler when its request body has been parsed; the
\* content the completion will return is drawn here
InitAnalyze ==
    /\ aRev \in ARevisions
    /\ aBody \in [prompt : BOOLEAN, clips : RequestClips]
    /\ aiContent \in { [ok |-> FALSE, json |-> << >>] }
                     \cup { [ok |-> TRUE, json |-> << ai >>] : ai \in AIResponses }
    /\ aPc = "validate"
    /\ editRequest = << >>
    /\ aResponse = NoResponse
    /\ EditorIdle
    /\ ClampIdle
    /\ OthersIdle

SpecAnalyze == InitAnalyze /\ [][NextAnalyze]_vars

----------------------------------------------------------------------------
(* Ranges of the normalized parameters *)

Merged == aPc \in {"forward", "done"} /\ editRequest # << >>

InRange(x, lo, hi) == lo <= x /\ x <= hi

\* C6: every numeric parameter of the edit request built from an AI response
\* (by mergeWithDefaults) or after a parse failure (by
\* generateDefaultRequest) lies in its range: volume [0.5, 1.0], fadeIn and
\* fadeOut [0.5, 2.0], brightness [-0.2, 0.2], contrast and saturation
\* [0.9, 1.2], gamma [0.9, 1.1], vibrance [1.0, 1.2], transition duration
\* [0.5, 2.0], speed [0.5, 2.0].
C6_ParametersInRange ==
    Merged =>
       LET e == editRequest[1]
           c == e.effects.colorAdjustment
       IN  /\ InRange(e.audio.volume, 50, 100)
           /\ InRange(e.audio.fadeIn, 50, 200)
           /\ InRange(e.audio.fadeOut, 50, 200)
           /\ InRange(c.brightness, -20, 20)
           /\ InRange(c.contrast, 90, 120)
           /\ InRange(c.saturation, 90, 120)
           /\ InRange(c.gamma, 90, 110)
           /\ InRange(c.vibrance, 100, 120)
           /\ InRange(e.effects.transition.duration, 50, 200)
           /\ InRange(e.effects.speed, 50, 200)

\* a response with a volume of 5.0, a zero fade-in and a negative fade-out
\* has been merged
C6_Witness ==
    /\ Merged
    /\ aiContent.ok
    /\ Field(aiContent.json[1].audio, "volume") = << 500 >>
    /\ Field(aiContent.json[1].audio, "fadeIn") = << 0 >>
    /\ Field(aiContent.json[1].audio, "fadeOut") = << -100 >>
    /\ editRequest[1].audio.volume = 100
    /\ editRequest[1].audio.fadeOut = 50

\* width, an x, height: both numbers non-empty and made of digits only
WellFormedResolution(s) ==
    \E k \in 2..(Len(s) - 1) :
       /\ s[k] = "x"
       /\ \A i \in DOMAIN s : i # k => s[i] \in Digits

RequestedResolution == Field(aiContent.json[1].output, "resolution")

\* C8: a response that was parsed and merged always yields an edit request;
\* its resolution is the response's resolution when that is well formed and
\* "1080x1920" when it is malformed ("abc", "1080") or missing.
C8_ResolutionFallback ==
    /\ aPc = "forward" => (editRequest # << >> /\ aResponse = NoResponse)
    /\ (Merged /\ aiContent.ok /\ ~MergeThrows(aRev, aiContent.json[1])) =>
          LET r == RequestedResolution
              out == editRequest[1].output.resolution
          IN  /\ (r # << >> /\ WellFormedResolution(r[1])) => out = r[1]
              /\ (r = << >> \/ ~WellFormedResolution(r[1]))
                    => out = Chars("1080x1920")
              /\ r = << Chars("abc") >> => out = Chars("1080x1920")
              /\ r = << Chars("1080") >> => out = Chars("1080x1920")
              /\ r = << Chars("720x1280") >> => out = Chars("720x1280")

C8_Witness ==
    /\ Merged
    /\ aiContent.ok
    /\ RequestedResolution = << Chars("720x1280") >>
    /\ editRequest[1].output.resolution = Chars("720x1280")

----------------------------------------------------------------------------
(* clamp applied repeatedly *)

MaxClampValue == 4

ApplyClamp ==
    /\ Len(clampResults) < 2
    /\ clampResults' =
          Append(clampResults,
                 Clamp(IF clampResults = << >> THEN clampArgs.value
                       ELSE clampResults[Len(clampResults)],
                       clampArgs.min, clampArgs.max))
    /\ UNCHANGED clampArgs
    /\ UNCHANGED << editorVars, analyzeVars, runVars, writerVars, pollVars, serviceVars >>

NextClamp == ApplyClamp

InitClamp ==
    /\ clampArgs \in { a \in [value : -MaxClampValue..MaxClampValue,
                              min : -MaxClampValue..MaxClampValue,
                              max : -MaxClampValue..MaxClampValue] :
                         a.min <= a.max }
    /\ clampResults = << >>
    /\ EditorIdle
    /\ AnalyzeIdle
    /\ OthersIdle

SpecClamp == InitClamp /\ [][NextClamp]_vars

\* C7: for min <= max, clamp(x) lies in [min, max], equals x when x already
\* lies in [min, max], and clamp(clamp(x)) = clamp(x).
C7_ClampIdempotent ==
    /\ Len(clampResults) >= 1 =>
          /\ InRange(clampResults[1], clampArgs.min, clampArgs.max)
          /\ InRange(clampArgs.value, clampArgs.min, clampArgs.max)
                => clampResults[1] = clampArgs.value
    /\ Len(clampResults) >= 2 => clampResults[2] = clampResults[1]

\* a value above the range has been clamped twice
C7_Witness ==
    /\ Len(clampResults) = 2
    /\ clampArgs.value > clampArgs.max
    /\ clampArgs.min < clampArgs.max
    /\ clampResults[2] = clampArgs.max

----------------------------------------------------------------------------
(* Three clips of 6 s against a 15 s narration, with a 1 s fade *)

\* the stage of graph g that produces the label out
StageOf(g, out) == g[CHOOSE k \in DOMAIN g : g[k].out = out]

\* the position in graph g of the stage that produces the label out
StageIndex(g, out) == CHOOSE k \in DOMAIN g : g[k].out = out

\* the sides ("in", "out") of the fades applied to clip i, in order
FadeSides(g, i) ==
    LET chain == StageOf(g, Label("fadedclip", i)).chain
    IN  [j \in DOMAIN chain |-> chain[j].expr]

\* the stages of graph g that start a clip's normalization (the fps filter)
NormalizationStages(g) ==
    { k \in DOMAIN g : g[k].chain[1].name = "fps" }

ThreeClipsOfSix ==
    /\ pc = "exec"
    /\ Len(body.clips) = 3
    /\ \A k \in DOMAIN body.clips :
          /\ body.clips[k].duration = None
          /\ body.clips[k].speed = None
          /\ files[k].sourceDuration = 6
    /\ audioFile = [exists |-> TRUE, duration |-> 15]
    /\ body.effects =
          << [NoEffects EXCEPT !.transition = FadeTransition(<< 1 >>)] >>
    /\ body.finalFilter = None

\* C11: three clips of 6 s with no duration override, a 15 s narration and a
\* 1 s fade as the only effect give total 18, target 15 and an actual
\* duration of 5 for each clip; the graph has three normalization chains,
\* a fade-out only on clip 0, a fade-in and a fade-out on clip 1, a fade-in
\* only on clip 2, then concat=n=3:v=1:a=0 and, after identity stages only,
\* the format stage that emits finalv; the graph holds no audio filter and
\* the audio is mapped from input 3.
C11_EndToEnd ==
    ThreeClipsOfSix =>
       /\ totalVideoDuration = RInt(18)
       /\ targetDuration = RInt(15)
       /\ \A k \in DOMAIN adjustedClips :
             adjustedClips[k].actualDuration = RInt(5)
       /\ Cardinality(NormalizationStages(Graph)) = 3
       /\ FadeSides(Graph, 0) = << "out" >>
       /\ FadeSides(Graph, 1) = << "in", "out" >>
       /\ FadeSides(Graph, 2) = << "in" >>
       /\ \A i \in 0..1 :
             LET chain == StageOf(Graph, Label("fadedclip", i)).chain
             IN  chain[Len(chain)] = FadeOut(RInt(5), 1)
       /\ LET c == StageIndex(Graph, Fixed("mainv"))
              f == StageIndex(Graph, Fixed("finalv"))
          IN  /\ Graph[c].chain = << ConcatFilter(3) >>
              /\ Graph[c].ins = [k \in 1..3 |-> Label("fadedclip", k - 1)]
              /\ c < f
              /\ f = Len(Graph)
              /\ Graph[f].chain = << Format >>
              /\ \A k \in (c + 1)..(f - 1) : Graph[k].chain = << Copy >>
       /\ \A k \in DOMAIN Graph : \A j \in DOMAIN Graph[k].chain :
             Graph[k].chain[j].name \notin {"afade", "volume"}
       /\ Len(command.inputFiles) = 4
       /\ command.inputFiles[4] = "generated_speech.mp3"
       /\ OptionValue("-map:a") = 3
       /\ HasFlag("-af") <=> body.audio # None

\* the request of C11 handled by route.ts, with audio settings in the body
C11_Witness ==
    /\ ThreeClipsOfSix
    /\ rev = "route"
    /\ body.audio # None
    /\ HasFlag("-af")
    /\ OptionValue("-t") = RInt(15)

----------------------------------------------------------------------------
(* The same request handled more than once *)

MaxRuns == 2

\* the same body is posted to the video editor again, with the same files
\* on disk: the handler starts over with fresh locals
PostAgain ==
    /\ pc = "done"
    /\ runs < MaxRuns
    /\ runs' = runs + 1
    /\ pc' = "validate"
    /\ probed' = {}
    /\ totalVideoDuration' = RInt(0)
    /\ clipInfos' = [k \in DOMAIN body.clips |->
                       [fileName |-> k, duration |-> None, speed |-> None,
                        sourceDuration |-> 0, actualDuration |-> RInt(0)]]
    /\ audioDuration' = RInt(0)
    /\ targetDuration' = RInt(0)
    /\ durationScale' = RInt(0)
    /\ adjustedClips' = << >>
    /\ clipFilters' = << >>
    /\ command' = EmptyBuilder
    /\ ffmpegCommand' = << >>
    /\ executed' = FALSE
    /\ response' = NoResponse
    /\ UNCHANGED << rev, body, files, audioFile, commandsSeen, requestsSeen >>
    /\ UNCHANGED << analyzeVars, clampVars, writerVars, pollVars, serviceVars >>

\* the same prompt is posted to analyzeEdit again and the completion
\* returns the same content
AnalyzeAgain ==
    /\ aPc = "done"
    /\ runs < MaxRuns
    /\ runs' = runs + 1
    /\ aPc' = "validate"
    /\ editRequest' = << >>
    /\ aResponse' = NoResponse
    /\ UNCHANGED << aRev, aBody, aiContent, commandsSeen, requestsSeen >>
    /\ UNCHANGED << editorVars, clampVars, writerVars, pollVars, serviceVars >>

NextRuns ==
    \/ Next
    \/ NextAnalyze
    \/ PostAgain
    \/ AnalyzeAgain

\* either a request to the video editor, its clips of different kinds, or a
\* request to analyzeEdit whose AI response may or may not name a filter
InitRuns ==
    \/ \E r \in Revisions, kinds \in ClipLists, audio \in AudioFiles :
          InitRequest(r, kinds, 0, audio, None, None, None)
    \/ /\ aRev \in ARevisions
       /\ aBody \in [prompt : { TRUE }, clips : RequestClips]
       /\ aiContent \in { [ok |-> FALSE, json |-> << >>] }
                        \cup { [ok |-> TRUE, json |-> << ai >>] :
                                 ai \in ClipFilterResponses }
       /\ aPc = "validate"
       /\ editRequest = << >>
       /\ aResponse = NoResponse
       /\ EditorIdle
       /\ ClampIdle
       /\ OthersIdle

SpecRuns == InitRuns /\ [][NextRuns]_vars

\* the AI response was parsed and merged, and it names a filter
ResponseNamesFilter ==
    /\ aiContent.ok
    /\ ~MergeThrows(aRev, aiContent.json[1])
    /\ aiContent.json[1].finalFilter # None
    /\ aiContent.json[1].finalFilter[1] # ""

WithoutFilter(request) == [request EXCEPT !.finalFilter = ""]

----------------------------------------------------------------------------
(* Requests in flight at the same time *)

MaxRequests == 3

\* the handlers that run ffmpeg onto a file under public/output
Handlers == { "route", "part013", "createMusicVideo" }

\* outputPath of createMusicVideo's GET
FinalVideoPath == "public/output/final_video.mp4"

\* the outputPath local of each handler: no part of it comes from the request
OutputPathOf(handler) ==
    IF handler = "createMusicVideo" THEN FinalVideoPath ELSE OutputPath

\* a request arrives and the handler computes its output path
Arrive(handler) ==
    /\ Len(inFlight) < MaxRequests
    /\ inFlight' = Append(inFlight,
                          [handler |-> handler, phase |-> "preparing",
                           outputPath |-> OutputPathOf(handler)])
    /\ UNCHANGED << editorVars, analyzeVars, clampVars, runVars, pollVars, serviceVars >>

\* execAsync(ffmpegCommand): ffmpeg -y starts writing the output path
StartFFmpeg(i) ==
    /\ i \in DOMAIN inFlight
    /\ inFlight[i].phase = "preparing"
    /\ inFlight' = [inFlight EXCEPT ![i].phase = "writing"]
    /\ UNCHANGED << editorVars, analyzeVars, clampVars, runVars, pollVars, serviceVars >>

\* ffmpeg exits and the handler responds
Respond(i) ==
    /\ i \in DOMAIN inFlight
    /\ inFlight[i].phase = "writing"
    /\ inFlight' = [inFlight EXCEPT ![i].phase = "done"]
    /\ UNCHANGED << editorVars, analyzeVars, clampVars, runVars, pollVars, serviceVars >>

NextConcurrent ==
    \/ \E handler \in Handlers : Arrive(handler)
    \/ \E i \in DOMAIN inFlight : StartFFmpeg(i)
    \/ \E i \in DOMAIN inFlight : Respond(i)

InitConcurrent ==
    /\ inFlight = << >>
    /\ EditorIdle
    /\ AnalyzeIdle
    /\ ClampIdle
    /\ FirstRun
    /\ PollIdle
    /\ ServicesIdle

SpecConcurrent == InitConcurrent /\ [][NextConcurrent]_vars

\* C13: two requests whose ffmpeg processes run at the same time never
\* write to the same output path.
C13_DistinctOutputPaths ==
    \A i, j \in DOMAIN inFlight :
       ( /\ i # j
         /\ inFlight[i].phase = "writing"
         /\ inFlight[j].phase = "writing" )
       => inFlight[i].outputPath # inFlight[j].outputPath

----------------------------------------------------------------------------
(* The handlers that poll: createMusicVideo (route.ts and part_006),       *)
(* shotstack and checkKlingVideo                                           *)

MaxFileSize == 2

\* maxAttempts of createMusicVideo's GET
MaxAttempts == 10

\* maxAttempts of shotstack's POST
MaxRenderAttempts == 60

\* MAX_POLLING_TIME and POLLING_INTERVAL of checkKlingVideo, in seconds
MaxPollingTime == 180
PollingInterval == 5

MusicVideoHandlers == { "createMusicVideo", "part006" }

PollResponse(status, error, details) ==
    [status |-> status, error |-> error, details |-> details]

\* the catch block that ends each handler, for an Error with this message;
\* only part_006 and checkKlingVideo put the message in the response
CatchResponse(handler, message) ==
    IF handler = "createMusicVideo"
    THEN PollResponse(500, "Failed to generate video", "")
    ELSE IF handler = "part006"
    THEN PollResponse(500, "Failed to generate video", message)
    ELSE IF handler = "shotstack"
    THEN PollResponse(500, "Failed to process video edit", "")
    ELSE PollResponse(500, "Failed to check video status", message)

\* throw new Error(message) at a site of this kind, caught by the handler
Throw(kind, message) ==
    /\ failure' = kind
    /\ thrown' = message
    /\ pResponse' = CatchResponse(pHandler, message)
    /\ pPc' = "done"

\* createMusicVideo: the file list and the narration must exist
CheckRequiredFiles(fileList, audio) ==
    /\ pHandler \in MusicVideoHandlers
    /\ pPc = "start"
    /\ IF ~fileList THEN Throw("precondition", "File list not found")
       ELSE IF ~audio THEN Throw("precondition", "Audio file not found")
       ELSE /\ pPc' = "ffmpeg"
            /\ UNCHANGED << failure, thrown, pResponse >>
    /\ UNCHANGED << pHandler, attempts, videoReady, checks, fileSize,
                    initialSize, elapsed >>
    /\ UNCHANGED << editorVars, analyzeVars, clampVars, runVars, writerVars,
                    serviceVars >>

\* createMusicVideo: execAsync(ffmpegCommand) resolves or rejects
ExecFFmpeg(ok) ==
    /\ pHandler \in MusicVideoHandlers
    /\ pPc = "ffmpeg"
    /\ IF ok
       THEN /\ pPc' = "loop"
            /\ attempts' = 0
            /\ videoReady' = FALSE
            /\ UNCHANGED << failure, thrown, pResponse >>
       ELSE /\ Throw("execution", "Command failed")
            /\ UNCHANGED << attempts, videoReady >>
    /\ UNCHANGED << pHandler, checks, fileSize, initialSize, elapsed >>
    /\ UNCHANGED << editorVars, analyzeVars, clampVars, runVars, writerVars,
                    serviceVars >>

\* the test of the loop accepts attempt number attempts + 1
MoreAttemptsInclusive == attempts <= MaxAttempts /\ ~videoReady

\* while (attempts < maxAttempts && !videoReady)
MoreAttempts == attempts < MaxAttempts /\ ~videoReady

\* createMusicVideo: the while test; the body starts with the call of
\* checkVideoReady, the exit is followed by the timeout test
WaitLoop ==
    /\ pHandler \in MusicVideoHandlers
    /\ pPc = "loop"
    /\ IF MoreAttempts
       THEN /\ checks' = checks + 1
            /\ pPc' = "stat"
            /\ UNCHANGED << failure, thrown, pResponse >>
       ELSE IF ~videoReady
       THEN /\ Throw("timeout", "Video generation timed out")
            /\ UNCHANGED checks
       ELSE /\ pPc' = "probeOutput"
            /\ UNCHANGED << checks, failure, thrown, pResponse >>
    /\ UNCHANGED << pHandler, attempts, videoReady, fileSize, initialSize,
                    elapsed >>
    /\ UNCHANGED << editorVars, analyzeVars, clampVars, runVars, writerVars,
                    serviceVars >>

\* checkVideoReady up to its one-second wait: statSync throws when the file
\* is missing and the catch returns false, as does an empty file; the loop
\* body then waits and counts the attempt
CheckVideoReadyStat ==
    /\ pHandler \in MusicVideoHandlers
    /\ pPc = "stat"
    /\ IF fileSize <= 0
       THEN /\ videoReady' = FALSE
            /\ attempts' = attempts + 1
            /\ pPc' = "loop"
            /\ UNCHANGED initialSize
       ELSE /\ initialSize' = fileSize
            /\ pPc' = "recheck"
            /\ UNCHANGED << videoReady, attempts >>
    /\ UNCHANGED << pHandler, checks, fileSize, elapsed, failure, thrown,
                    pResponse >>
    /\ UNCHANGED << editorVars, analyzeVars, clampVars, runVars, writerVars,
                    serviceVars >>

\* checkVideoReady after the wait: the size must not have changed; part_006
\* also runs ffprobe on the file (valid: no stderr and no rejection)
CheckVideoReadyFinal(valid) ==
    /\ pHandler \in MusicVideoHandlers
    /\ pPc = "recheck"
    /\ LET isReady == /\ fileSize = initialSize
                      /\ (pHandler = "part006" => valid)
       IN  /\ videoReady' = isReady
           /\ attempts' = IF isReady THEN attempts ELSE attempts + 1
    /\ pPc' = "loop"
    /\ UNCHANGED << pHandler, checks, fileSize, initialSize, elapsed, failure,
                    thrown, pResponse >>
    /\ UNCHANGED << editorVars, analyzeVars, clampVars, runVars, writerVars,
                    serviceVars >>

\* createMusicVideo: statSync and ffprobe on the finished file, then the
\* response
ProbeOutput(ok) ==
    /\ pHandler \in MusicVideoHandlers
    /\ pPc = "probeOutput"
    /\ IF ok /\ fileSize >= 0
       THEN /\ pResponse' = PollResponse(200, "", "")
            /\ pPc' = "done"
            /\ UNCHANGED << failure, thrown >>
       ELSE Throw("execution", "Command failed")
    /\ UNCHANGED << pHandler, attempts, videoReady, checks, fileSize,
                    initialSize, elapsed >>
    /\ UNCHANGED << editorVars, analyzeVars, clampVars, runVars, writerVars,
                    serviceVars >>

\* the output file is written, truncated or removed while the handler polls
FileChanges(size) ==
    /\ pHandler \in MusicVideoHandlers
    /\ pPc \in {"loop", "stat", "recheck"}
    /\ size # fileSize
    /\ fileSize' = size
    /\ UNCHANGED << pHandler, pPc, attempts, videoReady, checks, initialSize,
                    elapsed, failure, thrown, pResponse >>
    /\ UNCHANGED << editorVars, analyzeVars, clampVars, runVars, writerVars,
                    serviceVars >>

\* shotstack: the check on the request body
ShotstackValidate(hasClips) ==
    /\ pHandler = "shotstack"
    /\ pPc = "start"
    /\ IF ~hasClips
       THEN /\ pResponse' = PollResponse(400, "At least one clip is required", "")
            /\ failure' = "validation"
            /\ pPc' = "done"
       ELSE /\ pPc' = "submit"
            /\ UNCHANGED << failure, pResponse >>
    /\ UNCHANGED << pHandler, attempts, videoReady, checks, fileSize,
                    initialSize, elapsed, thrown >>
    /\ UNCHANGED << editorVars, analyzeVars, clampVars, runVars, writerVars,
                    serviceVars >>

\* shotstack: editApi.postRender(edit)
PostRender(ok) ==
    /\ pHandler = "shotstack"
    /\ pPc = "submit"
    /\ IF ok
       THEN /\ pPc' = "poll"
            /\ attempts' = 0
            /\ UNCHANGED << failure, thrown, pResponse >>
       ELSE /\ Throw("execution", "Failed to submit edit to Shotstack")
            /\ UNCHANGED attempts
    /\ UNCHANGED << pHandler, videoReady, checks, fileSize, initialSize,
                    elapsed >>
    /\ UNCHANGED << editorVars, analyzeVars, clampVars, runVars, writerVars,
                    serviceVars >>

RenderStatuses == { "rejected", "queued", "rendering", "done", "failed" }

\* shotstack: one turn of while (attempts < maxAttempts), or its exit;
\* "rejected" is getRender throwing
GetRender(status) ==
    /\ pHandler = "shotstack"
    /\ pPc = "poll"
    /\ IF attempts < MaxRenderAttempts
       THEN IF status = "done"
            THEN /\ pPc' = "download"
                 /\ UNCHANGED << attempts, failure, thrown, pResponse >>
            ELSE IF status = "failed"
            THEN /\ Throw("execution", "Render failed")
                 /\ UNCHANGED attempts
            ELSE IF status = "rejected"
            THEN /\ Throw("execution", "Request failed")
                 /\ UNCHANGED attempts
            ELSE /\ attempts' = attempts + 1
                 /\ UNCHANGED << pPc, failure, thrown, pResponse >>
       ELSE /\ Throw("timeout", "Render timed out")
            /\ UNCHANGED attempts
    /\ UNCHANGED << pHandler, videoReady, checks, fileSize, initialSize,
                    elapsed >>
    /\ UNCHANGED << editorVars, analyzeVars, clampVars, runVars, writerVars,
                    serviceVars >>

\* shotstack: the rendered video is downloaded to shotstack_video.mp4
Download(ok) ==
    /\ pHandler = "shotstack"
    /\ pPc = "download"
    /\ IF ok
       THEN /\ pResponse' = PollResponse(200, "", "")
            /\ pPc' = "done"
            /\ UNCHANGED << failure, thrown >>
       ELSE Throw("execution", "Request failed")
    /\ UNCHANGED << pHandler, attempts, videoReady, checks, fileSize,
                    initialSize, elapsed >>
    /\ UNCHANGED << editorVars, analyzeVars, clampVars, runVars, writerVars,
                    serviceVars >>

\* checkKlingVideo: the checks of POST before pollVideoStatus is called
KlingValidate(hasTaskId, hasKey) ==
    /\ pHandler = "checkKlingVideo"
    /\ pPc = "start"
    /\ IF ~hasTaskId
       THEN /\ pResponse' = PollResponse(400, "Task ID is required", "")
            /\ failure' = "validation"
            /\ pPc' = "done"
       ELSE IF ~hasKey
       THEN /\ pResponse' =
                  PollResponse(500, "Kling API key is not configured", "")
            /\ failure' = "configuration"
            /\ pPc' = "done"
       ELSE /\ pPc' = "poll"
            /\ UNCHANGED << failure, pResponse >>
    /\ elapsed' = 0
    /\ UNCHANGED << pHandler, attempts, videoReady, checks, fileSize,
                    initialSize, thrown >>
    /\ UNCHANGED << editorVars, analyzeVars, clampVars, runVars, writerVars,
                    serviceVars >>

MaxLatency == 1

TaskResults ==
    { "httpError", "completed", "completedNoUrl", "failed", "processing",
      "pending", "staged" }

\* POST returns the promise of pollVideoStatus without awaiting it, so an
\* Error thrown while polling passes by POST's catch block and the
\* framework answers
UncaughtResponse == PollResponse(500, "Internal Server Error", "")

\* checkKlingVideo: one call of pollVideoStatus; the fetch takes latency
\* seconds and a task still in progress is polled again after the interval
PollVideoStatus(result, latency) ==
    /\ pHandler = "checkKlingVideo"
    /\ pPc = "poll"
    /\ IF elapsed > MaxPollingTime
       THEN /\ pResponse' = PollResponse(408, "Polling timeout exceeded",
                                         "Video generation took longer")
            /\ failure' = "timeout"
            /\ pPc' = "done"
            /\ UNCHANGED << elapsed, thrown >>
       ELSE IF result = "completed"
       THEN /\ pResponse' = PollResponse(200, "", "")
            /\ pPc' = "done"
            /\ UNCHANGED << elapsed, failure, thrown >>
       ELSE IF result = "failed"
       THEN /\ pResponse' = PollResponse(500, "Video generation failed",
                                         "error")
            /\ failure' = "execution"
            /\ pPc' = "done"
            /\ UNCHANGED << elapsed, thrown >>
       ELSE IF result \in {"processing", "pending"}
       THEN /\ elapsed' = elapsed + latency + PollingInterval
            /\ UNCHANGED << pPc, failure, thrown, pResponse >>
       ELSE /\ failure' = "execution"
            /\ thrown' = result
            /\ pResponse' = UncaughtResponse
            /\ pPc' = "done"
            /\ UNCHANGED elapsed
    /\ UNCHANGED << pHandler, attempts, videoReady, checks, fileSize,
                    initialSize >>
    /\ UNCHANGED << editorVars, analyzeVars, clampVars, runVars, writerVars,
                    serviceVars >>

\* the steps of the handler itself
HandlerStep ==
    \/ \E fileList, audio \in BOOLEAN : CheckRequiredFiles(fileList, audio)
    \/ \E ok \in BOOLEAN : ExecFFmpeg(ok)
    \/ WaitLoop
    \/ CheckVideoReadyStat
    \/ \E valid \in BOOLEAN : CheckVideoReadyFinal(valid)
    \/ \E ok \in BOOLEAN : ProbeOutput(ok)
    \/ \E hasClips \in BOOLEAN : ShotstackValidate(hasClips)
    \/ \E ok \in BOOLEAN : PostRender(ok)
    \/ \E status \in RenderStatuses : GetRender(status)
    \/ \E ok \in BOOLEAN : Download(ok)
    \/ \E hasTaskId, hasKey \in BOOLEAN : KlingValidate(hasTaskId, hasKey)
    \/ \E result \in TaskResults, latency \in 0..MaxLatency :
          PollVideoStatus(result, latency)

NextPoll ==
    \/ HandlerStep
    \/ \E size \in -1..MaxFileSize : FileChanges(size)

PollHandlers == MusicVideoHandlers \cup { "shotstack", "checkKlingVideo" }

InitPoll ==
    /\ pHandler \in PollHandlers
    /\ pPc = "start"
    /\ attempts = 0
    /\ videoReady = FALSE
    /\ checks = 0
    /\ fileSize \in -1..MaxFileSize
    /\ initialSize = 0
    /\ elapsed = 0
    /\ failure = "none"
    /\ thrown = ""
    /\ pResponse = NoPollResponse
    /\ EditorIdle
    /\ AnalyzeIdle
    /\ ClampIdle
    /\ FirstRun
    /\ WritersIdle
    /\ ServicesIdle

SpecPoll == InitPoll /\ [][NextPoll]_vars

\* every await of a handler resumes: a handler that can take a step
\* eventually takes one
SpecPollFair == SpecPoll /\ WF_vars(HandlerStep)

\* the counters of createMusicVideo's wait loop
BoundedPolling ==
    pHandler \in MusicVideoHandlers =>
       /\ checks <= MaxAttempts
       /\ attempts <= MaxAttempts
       /\ videoReady => checks = attempts + 1
       /\ (~videoReady /\ pPc \in {"loop", "probeOutput", "done"})
             => checks = attempts
       /\ (pPc = "done" /\ attempts = MaxAttempts /\ ~videoReady)
             => /\ failure = "timeout"
                /\ thrown = "Video generation timed out"
       /\ failure = "timeout" => (checks = MaxAttempts /\ ~videoReady)

\* C14: createMusicVideo's GET calls checkVideoReady at most maxAttempts
\* (10) times, makes no call after the first true result, throws 'Video
\* generation timed out' when all ten calls return false, and always
\* terminates.
C14_BoundedPolling ==
    /\ []BoundedPolling
    /\ [](pHandler \in MusicVideoHandlers => <>(pPc = "done"))

\* ten calls returned false for a file that never settled
C14_Witness ==
    /\ pHandler \in MusicVideoHandlers
    /\ pPc = "done"
    /\ checks = MaxAttempts
    /\ fileSize > 0
    /\ thrown = "Video generation timed out"

\* the messages of the Errors thrown when a command or a remote call fails
ExecutionMessages ==
    { "Command failed", "Failed to submit edit to Shotstack", "Render failed",
      "Request failed" }

\* the responses a handler gives when the execution itself fails
ExecutionResponses(handler) ==
    IF handler = "checkKlingVideo"
    THEN { UncaughtResponse,
           PollResponse(500, "Video generation failed", "error") }
    ELSE { CatchResponse(handler, message) : message \in ExecutionMessages }

\* C15: a handler whose polling ran out answers with a response that is
\* none of its responses to an execution error.
C15_TimeoutDistinct ==
    (pPc = "done" /\ failure = "timeout")
       => pResponse \notin ExecutionResponses(pHandler)

----------------------------------------------------------------------------
(* Input indices *)

\* the stages of graph g that read the video stream of input N
InputReaders(g, N) ==
    { k \in DOMAIN g : \E j \in DOMAIN g[k].ins : g[k].ins[j] = InputRef(N) }

\* C16: the inputs are numbered 0, 1, 2, ... in the order they were added;
\* a stage that reads [N:v] belongs to clip N, whose file is input N; every
\* clip's input is read by some stage of the graph; and the audio is mapped
\* from the input whose index is the number of clips.
C16_StreamIndexAgreement ==
    pc = "exec" =>
       LET n == Len(adjustedClips)
       IN  /\ command.currentStreamIndex = Len(command.inputFiles)
           /\ \A k \in 1..n : command.inputFiles[k] = adjustedClips[k].fileName
           /\ \A k \in DOMAIN Graph : \A j \in DOMAIN Graph[k].ins :
                 IsInputRef(Graph[k].ins[j]) =>
                    /\ Graph[k].ins[j].idx \in 0..(n - 1)
                    /\ Graph[k].out.idx = Graph[k].ins[j].idx
           /\ \A i \in 0..(n - 1) : InputReaders(Graph, i) # {}
           /\ HasFlag("-map:a") =>
                 /\ OptionValue("-map:a") = n
                 /\ Len(command.inputFiles) = n + 1
                 /\ command.inputFiles[n + 1] = "generated_speech.mp3"

----------------------------------------------------------------------------
(* Order of the command's tokens *)

\* the flags of the built command, in order
Flags == [k \in DOMAIN ffmpegCommand |-> ffmpegCommand[k].flag]

\* n times the flag
Repeat(flag, n) == [k \in 1..n |-> flag]

CodecFlags == << "-c:v", "-preset", "-crf", "-c:a", "-s", "-r", "-t" >>

\* C17 (as stated): the command is the -i flags, one -filter_complex flag,
\* -map "[finalv]", then -map <audioIndex>:a and after it the audio filter
\* chain when the narration is present, then the codec, quality,
\* resolution, frame rate and duration flags, then the output path.
C17_CommandOrder ==
    pc = "exec" =>
       Flags = Repeat("-i", Len(command.inputFiles))
               \o << "-filter_complex", "-map" >>
               \o (IF audioFile.exists THEN << "-map:a", "-af" >> ELSE << >>)
               \o CodecFlags \o << "output" >>

\* C17 (amended): the -i flags (one per clip, then the narration when its
\* file exists), one -filter_complex flag, -map "[finalv]", then the -af
\* chain when the narration exists and the body has audio settings, then
\* -map <audioIndex>:a when the narration exists, then -c:v -preset -crf
\* -c:a -s -r -t, then the output path.
C17_CommandOrderAfFirst ==
    pc = "exec" =>
       /\ Len(command.inputFiles)
             = Len(body.clips) + (IF audioFile.exists THEN 1 ELSE 0)
       /\ Flags = Repeat("-i", Len(command.inputFiles))
                  \o << "-filter_complex", "-map" >>
                  \o (IF audioFile.exists /\ body.audio # None
                      THEN << "-af" >> ELSE << >>)
                  \o (IF audioFile.exists THEN << "-map:a" >> ELSE << >>)
                  \o CodecFlags \o << "output" >>
       /\ ffmpegCommand[Len(ffmpegCommand)].val = OutputPath

\* a command with two clips, the narration and audio settings
C17_Witness ==
    /\ pc = "exec"
    /\ Len(body.clips) = 2
    /\ audioFile.exists
    /\ body.audio # None
    /\ Flags = << "-i", "-i", "-i", "-filter_complex", "-map", "-af",
                  "-map:a" >> \o CodecFlags \o << "output" >>

----------------------------------------------------------------------------
(* The audio filter chain *)

\* the -af chain for these settings: fade-in, fade-out, volume; the fields
\* left out default to volume 1, fadeIn 0 and fadeOut 0
AudioChain(audio, target) ==
    LET volume == DefNum(audio.volume, 100)
        fadeIn == DefNum(audio.fadeIn, 0)
        fadeOut == DefNum(audio.fadeOut, 0)
    IN  << [f |-> "afade=t=in", st |-> RInt(0), d |-> Rat(fadeIn, 100)],
           [f |-> "afade=t=out", st |-> RSub(target, Rat(fadeOut, 100)),
            d |-> Rat(fadeOut, 100)],
           [f |-> "volume", st |-> RInt(0), d |-> Rat(volume, 100)] >>

\* the number of -af options of the command
AudioChains ==
    Cardinality({ k \in DOMAIN ffmpegCommand : ffmpegCommand[k].flag = "-af" })

NoAudioFilterInGraph ==
    \A k \in DOMAIN Graph : \A j \in DOMAIN Graph[k].chain :
       Graph[k].chain[j].name \notin {"afade", "volume"}

\* C18 (as stated): with the narration present the command carries one
\* audio filter chain as an output option, outside the graph: a fade-in at
\* 0 of length fadeIn, a fade-out of length fadeOut starting at
\* targetDuration - fadeOut, then the volume; without the narration it has
\* neither an audio map nor an audio filter chain.
C18_AudioChain ==
    pc = "exec" =>
       /\ NoAudioFilterInGraph
       /\ audioFile.exists =>
             /\ AudioChains = 1
             /\ HasFlag("-map:a")
             /\ body.audio # None =>
                   OptionValue("-af") = AudioChain(body.audio[1], targetDuration)
       /\ ~audioFile.exists => (~HasFlag("-af") /\ ~HasFlag("-map:a"))

\* C18 (amended): the chain is there exactly when the narration exists and
\* the body has audio settings; a narration without audio settings is
\* mapped unfiltered.
C18_AudioChainWhenSettings ==
    pc = "exec" =>
       /\ NoAudioFilterInGraph
       /\ HasFlag("-map:a") <=> audioFile.exists
       /\ HasFlag("-af") <=> (audioFile.exists /\ body.audio # None)
       /\ AudioChains <= 1
       /\ HasFlag("-af") =>
             OptionValue("-af") = AudioChain(body.audio[1], targetDuration)

\* a 2 s fade-out that starts 2 s before the end of a 15 s narration
C18_Witness ==
    /\ pc = "exec"
    /\ audioFile.exists
    /\ targetDuration = RInt(15)
    /\ body.audio # None
    /\ body.audio[1].fadeOut = << 200 >>
    /\ OptionValue("-af")[2] =
          [f |-> "afade=t=out", st |-> RInt(13), d |-> RInt(2)]

----------------------------------------------------------------------------
(* The per-clip chain *)

ClipStageNames == { "normclip", "scaledclip", "speedclip", "zoomedclip" }

IsStageOfClip(stage, i) ==
    stage.out.name \in ClipStageNames /\ stage.out.idx = i

\* the filters applied to clip i before the transition step, in order
ClipChain(g, i) ==
    LET stages == SelectSeq(g, LAMBDA stage : IsStageOfClip(stage, i))
    IN  Flatten([k \in DOMAIN stages |-> stages[k].chain])

FilterNames(chain) == [j \in DOMAIN chain |-> chain[j].name]

PerClipOrder == << "fps", "scale", "pad", "setsar", "trim", "setpts" >>

\* C19: the filters of every clip are fps, scale, pad, setsar, trim, setpts
\* (the speed stage), then zoompan if any, in this order, and the trim is
\* to the clip's actualDuration.
C19_PerClipOrder ==
    pc = "exec" =>
       \A k \in DOMAIN adjustedClips :
          LET chain == ClipChain(Graph, k - 1)
          IN  /\ FilterNames(chain) \in
                    { PerClipOrder, PerClipOrder \o << "zoompan" >> }
              /\ chain[5].nums = << adjustedClips[k].actualDuration >>

----------------------------------------------------------------------------
(* Fades at the ends of the clip list *)

HasTransition == body.effects # None /\ body.effects[1].transition # None

\* clip i carries a fade of this side ("in" or "out")
Faded(g, i, side) == \E j \in DOMAIN FadeSides(g, i) : FadeSides(g, i)[j] = side

\* C20: with a transition, clip i of n gets a fade-out exactly when it is
\* not the last clip and a fade-in exactly when it is not the first, for
\* every n >= 1.
C20_FadeSides ==
    (pc = "exec" /\ HasTransition) =>
       LET n == Len(adjustedClips)
       IN  \A i \in 0..(n - 1) :
              /\ Faded(Graph, i, "out") <=> i # n - 1
              /\ Faded(Graph, i, "in") <=> i # 0

----------------------------------------------------------------------------
(* Fades against the clip length *)

\* the fade filters applied to clip i
FadesOf(g, i) == StageOf(g, Label("fadedclip", i)).chain

\* C21: with a transition, every fade of every clip starts at a time >= 0
\* and lasts no longer than the clip's actualDuration.
C21_FadesWithinClip ==
    (pc = "exec" /\ HasTransition) =>
       \A k \in DOMAIN adjustedClips :
          \A j \in DOMAIN FadesOf(Graph, k - 1) :
             LET fade == FadesOf(Graph, k - 1)[j]
             IN  /\ RLeq(RInt(0), fade.nums[1])
                 /\ RLeq(fade.nums[2], adjustedClips[k].actualDuration)

----------------------------------------------------------------------------
(* The chain after the concatenation *)

\* the labels of the chain after mainv, in the order the claim gives them
PostConcatLabels ==
    << Fixed("colorv"), Fixed("textv"), Fixed("speedv"), Fixed("filteredv"),
       Fixed("finalv") >>

\* C22: after the concatenation the stages come once each and in the order
\* color (or copy), text, speed, finalFilter, format; a request that carries
\* a finalFilter has the finalFilter stage between speed and format, also
\* when it has no effects object; the format stage emits finalv and is the
\* last stage of the graph.
C22_PostConcatOrder ==
    pc = "exec" =>
       LET g == Graph
           last == g[Len(g)]
       IN  /\ last.out = Fixed("finalv")
           /\ last.chain = << Format >>
           /\ \A a \in DOMAIN PostConcatLabels :
                 Produced(g, PostConcatLabels[a]) <= 1
           /\ \A a, b \in DOMAIN PostConcatLabels :
                 ( /\ a < b
                   /\ Produced(g, PostConcatLabels[a]) = 1
                   /\ Produced(g, PostConcatLabels[b]) = 1 )
                 => /\ StageIndex(g, Fixed("mainv"))
                          < StageIndex(g, PostConcatLabels[a])
                    /\ StageIndex(g, PostConcatLabels[a])
                          < StageIndex(g, PostConcatLabels[b])
           /\ body.finalFilter # None =>
                 /\ Produced(g, Fixed("filteredv")) = 1
                 /\ LET f == StageOf(g, Fixed("filteredv"))
                    IN  /\ f.chain = << Filter("finalFilter", NoNums, NoText,
                                               body.finalFilter[1]) >>
                        /\ last.ins = << Fixed("filteredv") >>

----------------------------------------------------------------------------
(* The chain of text overlays *)

IsDrawText(stage) == stage.chain[1].name = "drawtext"

\* the drawtext stages of graph g, in order
DrawTextStages(g) == SelectSeq(g, IsDrawText)

HasTextList == body.effects # None /\ Len(body.effects[1].text) >= 1

\* C23: for a text list of k >= 1 entries the graph has k drawtext stages;
\* the first reads colorv, each further one reads the label the one before
\* it emits, and the last emits textv, which the speed stage reads.
C23_TextChain ==
    (pc = "exec" /\ HasTextList) =>
       LET d == DrawTextStages(Graph)
           k == Len(body.effects[1].text)
       IN  /\ Len(d) = k
           /\ d[1].ins = << Fixed("colorv") >>
           /\ \A j \in 2..k : d[j].ins = << d[j - 1].out >>
           /\ d[k].out = Fixed("textv")
           /\ StageOf(Graph, Fixed("speedv")).ins = << Fixed("textv") >>

----------------------------------------------------------------------------
(* Edit requests whose audio settings come out of mergeWithDefaults *)

\* the audio settings mergeWithDefaults produces for the fades an AI
\* response may carry
NormalizedAudioSettings ==
    { AudioSettingsOf(ai) :
        ai \in { r \in AudioResponses :
                   r.audio[1].volume = None /\ r.audio[1].bass = None } }

\* the audio field of the body the video editor parses from such a request
BodyAudio(a) ==
    << [volume |-> << a.volume >>, fadeIn |-> << a.fadeIn >>,
        fadeOut |-> << a.fadeOut >>] >>

\* a narration of one second and one of fifteen
ShortAndLongAudio ==
    { [exists |-> TRUE, duration |-> 1], [exists |-> TRUE, duration |-> 15] }

InitNormalized ==
    \E r \in Revisions, kinds \in ClipLists, audio \in ShortAndLongAudio,
       a \in NormalizedAudioSettings :
       \E missing \in 0..Len(kinds) :
          InitRequest(r, kinds, missing, audio, BodyAudio(a), None, None)

SpecNormalized == InitNormalized /\ [][Next]_vars

\* C24: in a command with an audio filter chain fadeIn + fadeOut is at most
\* targetDuration: the fade-out starts at a time >= 0 and not before the
\* fade-in has ended.
C24_FadesFitTarget ==
    (pc = "exec" /\ HasFlag("-af")) =>
       LET chain == OptionValue("-af")
           fadeIn == chain[1].d
           fadeOut == chain[2].d
       IN  /\ RLeq(RAdd(fadeIn, fadeOut), targetDuration)
           /\ RLeq(RInt(0), chain[2].st)
           /\ RLeq(fadeIn, chain[2].st)

----------------------------------------------------------------------------
(* generateKlingVideo: a task is created at the Kling API and polled by    *)
(* pollForCompletion.  route.ts holds two copies of the handler, "first"   *)
(* (lines 1-226) and "second" (lines 227-441).                             *)

TaskRevisions == { "first", "second" }

\* MAX_POLLING_ATTEMPTS of the first copy, maxAttempts of the second
MaxPollingAttempts(r) == IF r = "first" THEN 300 ELSE 60

\* the Error thrown when the while loop of pollForCompletion runs out
TimeoutMessage(r) ==
    IF r = "first"
    THEN "Video generation timed out after 1500 seconds"
    ELSE "Video generation timed out"

\* what one GET of the task can report: the request fails, the body has no
\* status, or the status is one of these; "completed" carries a video URL
PendingStatuses == { "pending", "processing", "staged" }

FailedReports ==
    { "httpError", "malformed", "completedNoResource", "completedNoUrl",
      "failed" }

TaskReports == { "completed" } \cup FailedReports \cup PendingStatuses

\* the Error pollForCompletion throws for a report that ends the polling
ReportMessage(report) ==
    IF report = "httpError" THEN "Request failed"
    ELSE IF report = "malformed" THEN "Cannot read properties of undefined"
    ELSE IF report = "completedNoResource"
    THEN "No video resource found in completed task"
    ELSE IF report = "completedNoUrl"
    THEN "No video URL found in completed task"
    ELSE "Task failed"

\* the catch block of POST
TaskThrow(message) ==
    /\ tThrown' = message
    /\ tResponse' = PollResponse(500, "Failed to generate video", message)
    /\ tPc' = "done"

\* POST: the check on the prompt
TaskValidate(hasPrompt) ==
    /\ tPc = "start"
    /\ IF ~hasPrompt
       THEN /\ tResponse' = PollResponse(400, "Prompt is required", "")
            /\ tPc' = "done"
       ELSE /\ tPc' = "create"
            /\ UNCHANGED tResponse
    /\ UNCHANGED << tRev, tAttempts, polls, lastStatus, videoUrl, tThrown >>
    /\ UNCHANGED << editorVars, analyzeVars, clampVars, runVars, writerVars,
                    pollVars, musicVars, srtVars >>

\* POST: axios.post of the task; the request is rejected, or the answer
\* has no task id, or the task is created
CreateTask(result) ==
    /\ tPc = "create"
    /\ IF result = "rejected" THEN TaskThrow("Request failed")
       ELSE IF result = "noTaskId" THEN TaskThrow("Failed to create Kling task")
       ELSE /\ tPc' = "poll"
            /\ UNCHANGED << tThrown, tResponse >>
    /\ tAttempts' = 0
    /\ UNCHANGED << tRev, polls, lastStatus, videoUrl >>
    /\ UNCHANGED << editorVars, analyzeVars, clampVars, runVars, writerVars,
                    pollVars, musicVars, srtVars >>

PollForCompletionInclusive(report) ==
    /\ tPc = "poll"
    /\ IF tAttempts <= MaxPollingAttempts(tRev)
       THEN /\ polls' = polls + 1
            /\ lastStatus' = report
            /\ IF report = "completed"
               THEN /\ videoUrl' = "url"
                    /\ tPc' = "download"
                    /\ UNCHANGED << tAttempts, tThrown, tResponse >>
               ELSE IF report \in FailedReports
               THEN /\ TaskThrow(ReportMessage(report))
                    /\ UNCHANGED << tAttempts, videoUrl >>
               ELSE /\ tAttempts' = tAttempts + 1
                    /\ UNCHANGED << tPc, videoUrl, tThrown, tResponse >>
       ELSE /\ TaskThrow(TimeoutMessage(tRev))
            /\ UNCHANGED << tAttempts, polls, lastStatus, videoUrl >>
    /\ UNCHANGED tRev
    /\ UNCHANGED << editorVars, analyzeVars, clampVars, runVars, writerVars,
                    pollVars, musicVars, srtVars >>

\* pollForCompletion: one turn of while (attempts < MAX_POLLING_ATTEMPTS),
\* or the throw after the loop; the catch inside the loop throws again
PollForCompletion(report) ==
    /\ tPc = "poll"
    /\ IF tAttempts < MaxPollingAttempts(tRev)
       THEN /\ polls' = polls + 1
            /\ lastStatus' = report
            /\ IF report = "completed"
               THEN /\ videoUrl' = "url"
                    /\ tPc' = "download"
                    /\ UNCHANGED << tAttempts, tThrown, tResponse >>
               ELSE IF report \in FailedReports
               THEN /\ TaskThrow(ReportMessage(report))
                    /\ UNCHANGED << tAttempts, videoUrl >>
               ELSE /\ tAttempts' = tAttempts + 1
                    /\ UNCHANGED << tPc, videoUrl, tThrown, tResponse >>
       ELSE /\ TaskThrow(TimeoutMessage(tRev))
            /\ UNCHANGED << tAttempts, polls, lastStatus, videoUrl >>
    /\ UNCHANGED tRev
    /\ UNCHANGED << editorVars, analyzeVars, clampVars, runVars, writerVars,
                    pollVars, musicVars, srtVars >>

\* POST: the video is downloaded and saved; the second copy tries three
\* times and checks the saved file
DownloadVideo(result) ==
    /\ tPc = "download"
    /\ IF result = "failed"
       THEN TaskThrow(IF tRev = "first" THEN "Failed to download video"
                      ELSE "Failed to download video after multiple attempts")
       ELSE IF result = "empty" /\ tRev = "second"
       THEN TaskThrow("Video file was not saved properly")
       ELSE /\ tResponse' = PollResponse(200, "", "")
            /\ tPc' = "done"
            /\ UNCHANGED tThrown
    /\ UNCHANGED << tRev, tAttempts, polls, lastStatus, videoUrl >>
    /\ UNCHANGED << editorVars, analyzeVars, clampVars, runVars, writerVars,
                    pollVars, musicVars, srtVars >>

NextTask ==
    \/ \E hasPrompt \in BOOLEAN : TaskValidate(hasPrompt)
    \/ \E result \in { "rejected", "noTaskId", "created" } : CreateTask(result)
    \/ \E report \in TaskReports : PollForCompletion(report)
    \/ \E result \in { "failed", "empty", "saved" } : DownloadVideo(result)

InitTask ==
    /\ tRev \in TaskRevisions
    /\ tPc = "start"
    /\ tAttempts = 0
    /\ polls = 0
    /\ lastStatus = ""
    /\ videoUrl = ""
    /\ tThrown = ""
    /\ tResponse = NoPollResponse
    /\ EditorIdle
    /\ AnalyzeIdle
    /\ ClampIdle
    /\ FirstRun
    /\ WritersIdle
    /\ PollIdle
    /\ MusicIdle
    /\ SrtIdle

SpecTask == InitTask /\ [][NextTask]_vars

\* the state of the polling as the retry state machine names it
TaskState ==
    IF tPc \in { "start", "create" } \/ (tPc = "done" /\ polls = 0)
    THEN "NotStarted"
    ELSE IF tPc = "poll" THEN "Pending"
    ELSE IF videoUrl # "" THEN "Completed"
    ELSE IF tThrown = TimeoutMessage(tRev) THEN "TimedOut"
    ELSE "Failed"

TaskStateInv ==
    /\ polls <= MaxPollingAttempts(tRev)
    /\ tAttempts <= MaxPollingAttempts(tRev)
    /\ TaskState = "Pending"
          => /\ polls = tAttempts
             /\ lastStatus \in PendingStatuses \cup { "" }
    /\ TaskState = "Completed" <=> lastStatus = "completed"
    /\ TaskState = "Failed" <=> lastStatus \in FailedReports
    /\ TaskState = "Failed"
          => /\ polls = tAttempts + 1
             /\ tThrown = ReportMessage(lastStatus)
    /\ TaskState = "TimedOut"
          <=> (tPc = "done" /\ tAttempts = MaxPollingAttempts(tRev))
    /\ TaskState = "TimedOut"
          => /\ polls = MaxPollingAttempts(tRev)
             /\ lastStatus \in PendingStatuses

TaskStateStep ==
    TaskState \in { "Completed", "Failed", "TimedOut" }
       => /\ polls' = polls
          /\ lastStatus' = lastStatus
          /\ tAttempts' = tAttempts
          /\ TaskState' = TaskState

\* C25: pollForCompletion is a bounded retry state machine: it returns the
\* video URL exactly when a poll reports 'completed' with a resource URL,
\* fails at once on 'failed' or a request error, stays pending for any
\* other status, times out after exactly MAX_POLLING_ATTEMPTS pending
\* polls, and never polls again once Completed, Failed or TimedOut.
C25_RetryStateMachine == []TaskStateInv /\ [][TaskStateStep]_vars

\* the first copy gave up after 300 polls that all found the task pending
C25_Witness ==
    /\ tRev = "first"
    /\ TaskState = "TimedOut"
    /\ polls = 300
    /\ tResponse = PollResponse(500, "Failed to generate video",
                                "Video generation timed out after 1500 seconds")

----------------------------------------------------------------------------
(* Supplied parameters and defaults *)

\* a parameter the response supplied comes back clamped to its range:
\* unchanged inside the range, the nearest bound outside of it
SuppliedKept(supplied, merged, lo, hi) ==
    supplied # None => merged = Clamp(supplied[1], lo, hi)

\* C26: mergeWithDefaults replaces only missing fields by defaults: a
\* numeric parameter the AI response supplies inside its range is returned
\* unchanged (a brightness of 0 stays 0) and one outside its range is moved
\* to the nearest bound, not to the default.
C26_SuppliedKept ==
    (Merged /\ aiContent.ok /\ ~MergeThrows(aRev, aiContent.json[1])) =>
       LET ai == aiContent.json[1]
           e == editRequest[1]
           ac == Field(ai.effects, "colorAdjustment")
           c == e.effects.colorAdjustment
       IN  /\ SuppliedKept(Field(ai.audio, "volume"), e.audio.volume, 50, 100)
           /\ SuppliedKept(Field(ai.audio, "fadeIn"), e.audio.fadeIn, 50, 200)
           /\ SuppliedKept(Field(ai.audio, "fadeOut"), e.audio.fadeOut, 50, 200)
           /\ SuppliedKept(Field(ac, "brightness"), c.brightness, -20, 20)
           /\ SuppliedKept(Field(ac, "contrast"), c.contrast, 90, 120)
           /\ SuppliedKept(Field(ac, "saturation"), c.saturation, 90, 120)
           /\ SuppliedKept(Field(ac, "gamma"), c.gamma, 90, 110)
           /\ SuppliedKept(Field(ac, "vibrance"), c.vibrance, 100, 120)
           /\ SuppliedKept(Field(Field(ai.effects, "transition"), "duration"),
                           e.effects.transition.duration, 50, 200)
           /\ SuppliedKept(Field(ai.effects, "speed"), e.effects.speed, 50, 200)

----------------------------------------------------------------------------
(* The OutputSpec of the request and the compiled command *)

\* output.resolution and output.fps are optional in EditRequest
OutputSpecs ==
    { [resolution |-> res, fps |-> fps] :
        res \in { None, << "1080x1920" >>, << "720x1280" >> },
        fps \in { None, << 24 >>, << 30 >> } }

\* requests that vary the OutputSpec
InitOutput ==
    \E r \in Revisions, n \in 1..MaxClips, kind \in ClipKinds,
       audio \in { NoAudioFile, [exists |-> TRUE, duration |-> 5] },
       output \in OutputSpecs, missing \in 0..1 :
          /\ EditorRequestWith(r, [k \in 1..n |-> kind], missing, audio, None,
                               None, None, output)
          /\ AnalyzeIdle
          /\ ClampIdle
          /\ OthersIdle

SpecOutput == InitOutput /\ [][Next]_vars

\* the scale and pad arguments and the frame rate as text, for a resolution
\* and a frame rate of OutputSpecs
ScaleFor(res) ==
    IF res = "720x1280" THEN "720:1280:force_original_aspect_ratio=decrease"
    ELSE "1080:1920:force_original_aspect_ratio=decrease"

PadFor(res) ==
    IF res = "720x1280" THEN "720:1280:(ow-iw)/2:(oh-ih)/2"
    ELSE "1080:1920:(ow-iw)/2:(oh-ih)/2"

FpsText(fps) == IF fps = 30 THEN "30" ELSE "24"

Named(chain, name) == SelectSeq(chain, LAMBDA f : f.name = name)

\* C27: the resolution and the frame rate of the compiled command follow
\* the request's OutputSpec: the scale and pad size of every clip's chain
\* and the -s flag equal output.resolution, the fps filter and the -r flag
\* equal output.fps.
C27_OutputFollowsRequest ==
    (pc = "exec" /\ HasFlag("-filter_complex")) =>
       /\ body.output.resolution # None =>
             LET res == body.output.resolution[1]
             IN  /\ OptionValue("-s") = res
                 /\ \A i \in DOMAIN adjustedClips :
                       LET chain == ClipChain(Graph, i - 1)
                           scales == Named(chain, "scale")
                       IN  /\ Named(chain, "pad")
                                = << Filter("pad", NoNums, NoText, PadFor(res)) >>
                           /\ scales # << >>
                           /\ scales[Len(scales)].expr = ScaleFor(res)
       /\ body.output.fps # None =>
             LET fps == body.output.fps[1]
             IN  /\ OptionValue("-r") = FpsText(fps)
                 /\ \A i \in DOMAIN adjustedClips :
                       Named(ClipChain(Graph, i - 1), "fps")
                          = << Filter("fps", << RInt(fps) >>, NoText, "") >>

----------------------------------------------------------------------------
(* analyzeKlingPrompt: the prompt is analysed, the analysis gives the       *)
(* search keywords, and fetchMusicWithRetry asks the music endpoint         *)

\* the default of fetchMusicWithRetry's maxAttempts parameter
MaxMusicAttempts == 3

\* the duration.min of the music request and of the check on the answer
MinSoundDuration == 10

\* [mainMood, musicStyle, ...keywords].filter(...): empty strings and
\* repetitions are removed
SearchKeywords(a) ==
    LET all == << a.mainMood, a.musicStyle >> \o a.keywords
        Keep(i) == all[i] # "" /\ \A j \in 1..(i - 1) : all[j] # all[i]
        F[i \in 0..Len(all)] ==
            IF i = 0 THEN << >>
            ELSE IF Keep(i) THEN Append(F[i - 1], all[i]) ELSE F[i - 1]
    IN  F[Len(all)]

\* Array.prototype.pop: the last element is removed, if there is one
Pop(s) == IF s = << >> THEN s ELSE SubSeq(s, 1, Len(s) - 1)

\* what a request to the music endpoint comes to: fetch rejects, the
\* response is not OK, or it carries a sound; duration 0 is a sound
\* without a duration
Rejected == [kind |-> "rejected", duration |-> 0]
NotOk == [kind |-> "notOk", duration |-> 0]
Sound(duration) == [kind |-> "sound", duration |-> duration]

MusicOutcomes == { Rejected, NotOk, Sound(0), Sound(9), Sound(10), Sound(60) }

TooShort(outcome) ==
    outcome.kind = "sound" /\ outcome.duration < MinSoundDuration

Valid(outcome) ==
    outcome.kind = "sound" /\ outcome.duration >= MinSoundDuration

\* the message of the Error a failed request throws
MusicMessage(outcome) ==
    IF outcome.kind = "rejected" THEN "fetch failed"
    ELSE IF outcome.kind = "notOk" THEN "Failed to fetch music"
    ELSE "Could not find a sound with sufficient duration after multiple attempts"

\* the catch block of POST
MusicCatch(message) ==
    PollResponse(500, "Failed to analyze prompt and fetch music", message)

\* POST: the checks on the prompt and on the API key
MusicValidate(validPrompt, hasKey) ==
    /\ mPc = "start"
    /\ IF ~validPrompt
       THEN /\ mResponse' = PollResponse(400, "Invalid prompt. Please provide a text prompt.", "")
            /\ mPc' = "done"
       ELSE IF ~hasKey
       THEN /\ mResponse' = MusicCatch("OpenAI API key is not configured")
            /\ mPc' = "done"
       ELSE /\ mPc' = "analyze"
            /\ UNCHANGED mResponse
    /\ UNCHANGED << analysis, searchKeywords, attempt, sent, outcomes,
                    musicData >>
    /\ UNCHANGED << editorVars, analyzeVars, clampVars, runVars, writerVars,
                    pollVars, taskVars, srtVars >>

\* POST: analyzePromptWithGPT4 throws, or returns an analysis whose
\* required fields are there; the keywords are taken from it
AnalyzePrompt(ok) ==
    /\ mPc = "analyze"
    /\ IF ok
       THEN /\ searchKeywords' = SearchKeywords(analysis)
            /\ mPc' = "fetch"
            /\ UNCHANGED mResponse
       ELSE /\ mResponse' = MusicCatch("OpenAI API call failed")
            /\ mPc' = "done"
            /\ UNCHANGED searchKeywords
    /\ attempt' = 1
    /\ UNCHANGED << analysis, sent, outcomes, musicData >>
    /\ UNCHANGED << editorVars, analyzeVars, clampVars, runVars, writerVars,
                    pollVars, taskVars, srtVars >>

FetchMusicPopOnError(outcome) ==
    /\ mPc = "fetch"
    /\ sent' = Append(sent, searchKeywords)
    /\ outcomes' = Append(outcomes, outcome)
    /\ IF Valid(outcome)
       THEN /\ musicData' = << outcome >>
            /\ mResponse' = PollResponse(200, "", "")
            /\ mPc' = "done"
            /\ UNCHANGED << attempt, searchKeywords >>
       ELSE IF attempt < MaxMusicAttempts
       THEN /\ searchKeywords' = Pop(searchKeywords)
            /\ attempt' = attempt + 1
            /\ UNCHANGED << mPc, musicData, mResponse >>
       ELSE /\ mResponse' = MusicCatch(MusicMessage(outcome))
            /\ mPc' = "done"
            /\ UNCHANGED << attempt, searchKeywords, musicData >>
    /\ UNCHANGED analysis
    /\ UNCHANGED << editorVars, analyzeVars, clampVars, runVars, writerVars,
                    pollVars, taskVars, srtVars >>

\* one call of fetchMusicWithRetry: the request, the check of the sound,
\* and the retry or the throw; the Error of the last attempt reaches the
\* catch block of POST
FetchMusic(outcome) ==
    /\ mPc = "fetch"
    /\ sent' = Append(sent, searchKeywords)
    /\ outcomes' = Append(outcomes, outcome)
    /\ IF Valid(outcome)
       THEN /\ musicData' = << outcome >>
            /\ mResponse' = PollResponse(200, "", "")
            /\ mPc' = "done"
            /\ UNCHANGED << attempt, searchKeywords >>
       ELSE IF attempt < MaxMusicAttempts
       THEN /\ searchKeywords' = IF TooShort(outcome) THEN Pop(searchKeywords)
                                 ELSE searchKeywords
            /\ attempt' = attempt + 1
            /\ UNCHANGED << mPc, musicData, mResponse >>
       ELSE /\ mResponse' = MusicCatch(MusicMessage(outcome))
            /\ mPc' = "done"
            /\ UNCHANGED << attempt, searchKeywords, musicData >>
    /\ UNCHANGED analysis
    /\ UNCHANGED << editorVars, analyzeVars, clampVars, runVars, writerVars,
                    pollVars, taskVars, srtVars >>

NextMusic ==
    \/ \E validPrompt, hasKey \in BOOLEAN : MusicValidate(validPrompt, hasKey)
    \/ \E ok \in BOOLEAN : AnalyzePrompt(ok)
    \/ \E outcome \in MusicOutcomes : FetchMusic(outcome)

\* analyses that pass the check of the required fields: mainMood and
\* musicStyle are not empty, keywords may be
Words == { "calm", "piano" }

MaxKeywords == 2

Analyses ==
    [mainMood : Words, musicStyle : Words,
     keywords : UNION { [1..n -> Words \cup { "", "rain" }] : n \in 0..MaxKeywords }]

InitMusic ==
    /\ mPc = "start"
    /\ analysis \in Analyses
    /\ searchKeywords = << >>
    /\ attempt = 1
    /\ sent = << >>
    /\ outcomes = << >>
    /\ musicData = << >>
    /\ mResponse = NoPollResponse
    /\ EditorIdle
    /\ AnalyzeIdle
    /\ ClampIdle
    /\ FirstRun
    /\ WritersIdle
    /\ PollIdle
    /\ TaskIdle
    /\ SrtIdle

SpecMusic == InitMusic /\ [][NextMusic]_vars

\* the requests, the result and the throw of fetchMusicWithRetry
BoundedFetch ==
    /\ Len(sent) <= MaxMusicAttempts
    /\ Len(outcomes) = Len(sent)
    /\ \A k \in 1..(Len(outcomes) - 1) : ~Valid(outcomes[k])
    /\ musicData # << >>
          <=> (outcomes # << >> /\ Valid(outcomes[Len(outcomes)]))
    /\ musicData # << >>
          => /\ musicData[1] = outcomes[Len(outcomes)]
             /\ mResponse.status = 200
    /\ (mPc = "done" /\ sent # << >> /\ musicData = << >>)
          <=> (Len(outcomes) = MaxMusicAttempts
                 /\ ~Valid(outcomes[MaxMusicAttempts]))
    /\ (mPc = "done" /\ sent # << >> /\ musicData = << >>)
          => mResponse = MusicCatch(MusicMessage(outcomes[MaxMusicAttempts]))

\* C28: fetchMusicWithRetry issues at most three requests, returns the first
\* response whose sound lasts at least 10 s, removes exactly one keyword
\* (the last) before each retry caused by a too-short sound and none before
\* a retry caused by an error, and throws once the third attempt fails.
C28_BoundedFetch ==
    /\ BoundedFetch
    /\ \A k \in 1..(Len(sent) - 1) :
          IF TooShort(outcomes[k])
          THEN /\ Len(sent[k + 1]) = Len(sent[k]) - 1
               /\ sent[k + 1] = SubSeq(sent[k], 1, Len(sent[k]) - 1)
          ELSE sent[k + 1] = sent[k]

\* C28, amended: as C28, but the last keyword is removed only when one is
\* left; a retry after a too-short sound found with no keywords repeats the
\* request without keywords.
C28_BoundedFetchWhileKeywords ==
    /\ BoundedFetch
    /\ \A k \in 1..(Len(sent) - 1) :
          IF TooShort(outcomes[k]) /\ sent[k] # << >>
          THEN /\ Len(sent[k + 1]) = Len(sent[k]) - 1
               /\ sent[k + 1] = SubSeq(sent[k], 1, Len(sent[k]) - 1)
          ELSE sent[k + 1] = sent[k]

\* one keyword, two sounds that were too short, a third request without
\* keywords that failed
C28_Witness ==
    /\ mPc = "done"
    /\ sent = << << "calm" >>, << >>, << >> >>
    /\ TooShort(outcomes[1])
    /\ TooShort(outcomes[2])
    /\ outcomes[3] = NotOk
    /\ mResponse = MusicCatch("Failed to fetch music")

----------------------------------------------------------------------------
(* The answers of checkKlingVideo *)

\* C29: checkKlingVideo's POST answers every polling outcome with a JSON
\* response of its own: success for a completed task, 500 with the task
\* error for a failed one, 408 once the elapsed time is over
\* MAX_POLLING_TIME, and its 500 'Failed to check video status' for any
\* error thrown while polling; no error escapes the handler, and polling
\* stops once MAX_POLLING_TIME is exceeded.
C29_EveryOutcomeAnswered ==
    pHandler = "checkKlingVideo" =>
       /\ elapsed <= MaxPollingTime + MaxLatency + PollingInterval
       /\ pPc = "done" =>
             /\ pResponse # NoPollResponse
             /\ failure = "timeout"
                   => /\ pResponse.status = 408
                      /\ elapsed > MaxPollingTime
             /\ (failure = "none" /\ thrown = "") => pResponse.status = 200
             /\ thrown # "" => pResponse = CatchResponse(pHandler, thrown)

----------------------------------------------------------------------------
(* generateSRT and formatTime of part_010.  Times are exact rationals; the  *)
(* handler computes them in floating point, which changes no comparison    *)
(* made here: every end time is a Math.min with totalDuration, and every   *)
(* start time is the end time before it.                                   *)

DigitOf == << "0", "1", "2", "3", "4", "5", "6", "7", "8", "9" >>

Pow10(w) == IF w = 0 THEN 1 ELSE IF w = 1 THEN 10 ELSE IF w = 2 THEN 100 ELSE 1000

\* String(n).padStart(w, "0") for 0 <= n < 10^w
PadStart(n, w) == [i \in 1..w |-> DigitOf[((n \div Pow10(w - i)) % 10) + 1]]

\* Math.floor(seconds * 1000) for seconds >= 0, whole seconds and the rest
\* apart
FloorMilliseconds(r) ==
    (r.n \div r.d) * 1000 + ((r.n % r.d) * 1000) \div r.d

\* the largest number of milliseconds formatTime prints: 23:59:59,999
MaxMilliseconds == 86399999

\* formatTime
FormatTime(seconds) ==
    LET secs0 == IF IsNaN(seconds) \/ seconds.n < 0 THEN RInt(0) ELSE seconds
        milliseconds == IF RLeq(RInt(86400), secs0) THEN MaxMilliseconds
                        ELSE Min(FloorMilliseconds(secs0), MaxMilliseconds)
        hours == (milliseconds \div 3600000) % 24
        minutes == (milliseconds \div 60000) % 60
        secs == (milliseconds \div 1000) % 60
        ms == milliseconds % 1000
    IN  PadStart(hours, 2) \o << ":" >> \o PadStart(minutes, 2) \o << ":" >>
           \o PadStart(secs, 2) \o << "," >> \o PadStart(ms, 3)

\* text.split(" "): the words between the spaces, empty ones included
RECURSIVE SplitFrom(_, _, _)
SplitFrom(text, i, words) ==
    IF i > Len(text) THEN words
    ELSE SplitFrom(text, i + 1,
                   IF text[i] = " " THEN Append(words, << >>)
                   ELSE [words EXCEPT ![Len(words)] = Append(@, text[i])])

Split(text) == SplitFrom(text, 1, << << >> >>)

\* words.join(" ")
RECURSIVE Join(_)
Join(words) ==
    IF words = << >> THEN << >>
    ELSE IF Len(words) = 1 THEN words[1]
    ELSE words[1] \o << " " >> \o Join(Tail(words))

\* words.slice(i, i + 10), for i counted from 0
Slice10(words, i) == SubSeq(words, i + 1, Min(i + 10, Len(words)))

\* one caption of the file: its number, the two times as computed and as
\* formatTime prints them, and its text
Caption(index, startTime, endTime, segment) ==
    [index |-> index, startTime |-> startTime, endTime |-> endTime,
     start |-> FormatTime(startTime), end |-> FormatTime(endTime),
     segment |-> segment]

\* (duration || 1) * 60
TotalDuration(duration) ==
    RMul(IF duration = << >> \/ IsNaN(duration[1]) \/ duration[1].n = 0
         THEN RInt(1) ELSE duration[1],
         RInt(60))

\* the loop of generateSRT: the captions of the groups of ten words
Captions(text, duration) ==
    LET words == Split(text)
        totalDuration == TotalDuration(duration)
        secondsPerWord == RDiv(totalDuration, RInt(Len(words)))
        groups == (Len(words) + 9) \div 10
        End[k \in 0..groups] ==
            IF k = 0 THEN RInt(0)
            ELSE RMin(RAdd(End[k - 1], RMul(secondsPerWord, RInt(10))),
                      totalDuration)
    IN  [k \in 1..groups |->
           Caption(k, End[k - 1], End[k], Join(Slice10(words, 10 * (k - 1))))]

\* the file the catch block of generateSRT writes
DefaultSRT ==
    << [index |-> 1, startTime |-> RInt(0), endTime |-> RInt(5),
        start |-> << "0", "0", ":", "0", "0", ":", "0", "0", ",", "0", "0", "0" >>,
        end |-> << "0", "0", ":", "0", "0", ":", "0", "5", ",", "0", "0", "0" >>,
        segment |-> << "E", "r", "r", "o", "r" >>] >>

\* generateSRT: text.split throws for a text that is undefined
GenerateSRT ==
    /\ srtFile = << >>
    /\ srtFile' = IF srtText = << >> THEN DefaultSRT
                  ELSE Captions(srtText[1], srtDuration)
    /\ UNCHANGED << srtText, srtDuration, formatted >>
    /\ UNCHANGED << editorVars, analyzeVars, clampVars, runVars, writerVars,
                    pollVars, taskVars, musicVars >>

\* one call of formatTime
ApplyFormatTime(seconds) ==
    /\ formatted = << >>
    /\ formatted' = << [seconds |-> seconds, text |-> FormatTime(seconds)] >>
    /\ UNCHANGED << srtText, srtDuration, srtFile >>
    /\ UNCHANGED << editorVars, analyzeVars, clampVars, runVars, writerVars,
                    pollVars, taskVars, musicVars >>

\* seconds formatTime is applied to: NaN, negative, zero, a fraction, the
\* last millisecond of the day and beyond
TimeArgs ==
    { NaN, RInt(-1), RInt(0), Rat(3, 2), Rat(86399999, 1000), RInt(86400),
      RInt(100000) }

NextSRT ==
    \/ GenerateSRT
    \/ \E seconds \in TimeArgs : ApplyFormatTime(seconds)

MaxWords == 21

\* n words with one space between them
WordsText(n) == [i \in 1..(2 * n - 1) |-> IF i % 2 = 1 THEN "a" ELSE " "]

SrtTexts ==
    { WordsText(n) : n \in 1..MaxWords }
    \cup { << >>, << " " >>, << "a", " ", " ", "b" >> }

\* the request's duration, in minutes: missing, zero, negative, half a
\* minute, one minute, more than a day
SrtDurations ==
    { None, << RInt(0) >>, << RInt(-1) >>, << Rat(1, 2) >>, << RInt(1) >>,
      << RInt(1441) >> }

InitSRT ==
    /\ srtText \in { None } \cup { << t >> : t \in SrtTexts }
    /\ srtDuration \in SrtDurations
    /\ srtFile = << >>
    /\ formatted = << >>
    /\ EditorIdle
    /\ AnalyzeIdle
    /\ ClampIdle
    /\ FirstRun
    /\ WritersIdle
    /\ PollIdle
    /\ TaskIdle
    /\ MusicIdle

SpecSRT == InitSRT /\ [][NextSRT]_vars

----------------------------------------------------------------------------
(* The captions *)

DigitValue(c) == CHOOSE d \in 0..9 : DigitOf[d + 1] = c

\* the milliseconds a printed time hh:mm:ss,mmm stands for
Milliseconds(t) ==
    LET N(i) == DigitValue(t[i])
    IN  (10 * N(1) + N(2)) * 3600000 + (10 * N(4) + N(5)) * 60000
           + (10 * N(7) + N(8)) * 1000 + 100 * N(10) + 10 * N(11) + N(12)

ZeroTime == << "0", "0", ":", "0", "0", ":", "0", "0", ",", "0", "0", "0" >>

LastTime == << "2", "3", ":", "5", "9", ":", "5", "9", ",", "9", "9", "9" >>

WellFormedCaptions ==
    (srtFile # << >> /\ srtText # << >>) =>
       LET words == Split(srtText[1])
           totalDuration == TotalDuration(srtDuration)
       IN  /\ Len(srtFile) = (Len(words) + 9) \div 10
           /\ \A k \in DOMAIN srtFile :
                 /\ srtFile[k].index = k
                 /\ srtFile[k].segment = Join(Slice10(words, 10 * (k - 1)))
                 /\ RLeq(srtFile[k].startTime, srtFile[k].endTime)
                 /\ Milliseconds(srtFile[k].start) <= Milliseconds(srtFile[k].end)
                 /\ RLeq(srtFile[k].endTime, totalDuration)
                 /\ RLeq(Rat(Milliseconds(srtFile[k].end), 1000), totalDuration)
                 /\ k > 1 => /\ srtFile[k].startTime = srtFile[k - 1].endTime
                             /\ srtFile[k].start = srtFile[k - 1].end
           /\ srtFile[1].startTime = RInt(0)
           /\ srtFile[1].start = ZeroTime
           /\ totalDuration =
                 IF srtDuration = << >> \/ srtDuration[1] = RInt(0)
                 THEN RInt(60)
                 ELSE RMul(srtDuration[1], RInt(60))

FormatTimeBounds ==
    formatted # << >> =>
       LET seconds == formatted[1].seconds
           text == formatted[1].text
       IN  /\ (IsNaN(seconds) \/ seconds.n < 0) => text = ZeroTime
           /\ Milliseconds(text) <= Milliseconds(LastTime)
           /\ (~IsNaN(seconds) /\ seconds.n >= 0
                 /\ FloorMilliseconds(seconds) >= MaxMilliseconds)
                 => text = LastTime

\* C30: generateSRT writes well-formed, contiguous captions for any text
\* and duration: entries numbered 1..k, one per group of up to 10 words,
\* the first starting at 0, each starting where the one before ends, start
\* <= end, no end after totalDuration = duration * 60 s (60 when the
\* duration is missing or 0); formatTime prints 00:00:00,000 for negative
\* or NaN seconds and at most 23:59:59,999.
C30_WellFormedCaptions == WellFormedCaptions /\ FormatTimeBounds

====
